---- MODULE Spec2Model ----
(***************************************************************************)
(* Call-centre transcript analysis system (namanag97/Contesa).             *)
(*                                                                         *)
(* The module models the parts of the program, each with its own           *)
(* specification over the same variables:                                  *)
(*   SpecStore   the persistence layer: DatabaseManager (database_manager  *)
(*               .py), the DAO layer (dao/*.py) and the CSV mode of        *)
(*               call_analysis.py (SpecImport is its CSV import alone, on  *)
(*               longer files);                                            *)
(*   SpecPool    dao/db_connection_pool.py, ConnectionPool, with threads   *)
(*               (SpecPoolFair adds the fairness of its timed wait);       *)
(*   SpecClient  the two OpenAIClient classes, with asyncio tasks;         *)
(*   SpecScore   ResultFormatter._calculate_confidence_score, a pure       *)
(*               function of the parsed reply;                             *)
(*   SpecService analyze_with_db.py, DbCallAnalysisService, whose runs     *)
(*               read and write the tables of DatabaseManager              *)
(*               (SpecServiceFair adds the progress of the coroutine);     *)
(*   SpecChunk   TextProcessor.chunk_text and the partial-transcript note; *)
(*   SpecCsvRun  call_analysis.py, CallAnalysisService                     *)
(*               .process_transcriptions on CSV files;                     *)
(*   SpecExport  DbDataManager.save_analysis_results and the CSV files it  *)
(*               exports;                                                  *)
(*   SpecFanout  the requests that analyze_batch and ClipProcessor         *)
(*               .process_files have in flight;                            *)
(*   SpecConfig  dao/config_dao.py, ConfigDAO;                             *)
(*   SpecAuth    dao/user_dao.py, UserDAO: the sessions of a user;         *)
(*   SpecBatches, SpecStatus  runs of DbCallAnalysisService on a fresh     *)
(*               database: the batches of a run, and the statuses and      *)
(*               counters over every result of the client;                 *)
(*   SpecReimport  the re-import of a changed transcript next to saved     *)
(*               analysis results and work selection;                      *)
(*   SpecDbConnection  the pool used through get_db_connection;            *)
(*   SpecSafeWrite  utils/file/file_handler.py, FileHandler                *)
(*               .safe_write_csv.                                          *)
(***************************************************************************)
EXTENDS Integers, Sequences, FiniteSets, TLC

VARIABLES
    store,               \* which code owns the database: "database_manager", "dao", "csv"
    transcriptions,      \* database_manager.py: table transcriptions, rows in rowid order
    analysis_results,    \* table analysis_results (schema of `store`), rows in rowid order
    call_transcriptions, \* setup_database.py: table call_transcriptions
    dao_save,            \* AnalysisResultDAO.save: each caller's position and locals
    transcriptions_df,   \* call_analysis.py: the transcriptions DataFrame
    analysis_df,         \* call_analysis.py: the analysis DataFrame
    selected,            \* the list the last work selection returned
    op,                  \* the last store operation: its name, argument facts, return value
    max_connections,     \* ConnectionPool.max_connections
    pool,                \* ConnectionPool.pool: the queue of idle connections
    active_connections,  \* ConnectionPool.active_connections
    lock,                \* ConnectionPool.lock: the thread that owns it, or "free"
    thread,              \* each thread's position in the pool's methods and its locals
    rate_limited,        \* TRUE for api/clients/openai_client.py, FALSE for call_analysis.py
    running,             \* the tasks that call analyze_transcript on the shared client
    task,                \* each task's position in analyze_transcript and its locals
    since_last_call,     \* time.time() - last_call_time, saturating
    last_gap,            \* the time between the last two requests sent, saturating
    exit_requested,      \* GracefulExit.exit_requested of the running service
    service,             \* DbCallAnalysisService: position in process_transcriptions, locals
    stats,               \* DbCallAnalysisService.stats
    analysis_stats,      \* database_manager.py: table analysis_stats, rows in rowid order
    analysis_csv,        \* the rows of the file at DbDataManager.analysis_path
    sent,                \* the call ids handed to OpenAIClient.analyze_transcript, in order
    scoring,             \* ResultFormatter._calculate_confidence_score: argument and return
    chunking,            \* one long item's way through chunk_text, the prompt and the note
    csv_run,             \* CallAnalysisService.process_transcriptions: position and locals
    export,              \* DbDataManager.save_analysis_results: position, locals, the files
    fanout,              \* a batch orchestrator: its batch and where each item's request is
    config,              \* ConfigDAO: the system_config table and what get_config returned
    auth,                \* UserDAO: the users and sessions tables, the clock, the last return
    safe_write           \* FileHandler.safe_write_csv and the files it touches

storeVars == <<store, transcriptions, analysis_results, call_transcriptions, dao_save,
               transcriptions_df, analysis_df, selected, op>>
poolVars == <<max_connections, pool, active_connections, lock, thread>>
clientVars == <<rate_limited, running, task, since_last_call, last_gap>>
serviceVars == <<exit_requested, service, stats, analysis_stats, analysis_csv, sent,
                 scoring>>
toolVars == <<chunking, csv_run, export, fanout, config, auth, safe_write>>
\* what the steps of one tool leave alone
notChunking == <<csv_run, export, fanout, config, auth, safe_write>>
notCsvRun == <<chunking, export, fanout, config, auth, safe_write>>
notExport == <<chunking, csv_run, fanout, config, auth, safe_write>>
notFanout == <<chunking, csv_run, export, config, auth, safe_write>>
notConfig == <<chunking, csv_run, export, fanout, auth, safe_write>>
notAuth == <<chunking, csv_run, export, fanout, config, safe_write>>
notSafeWrite == <<chunking, csv_run, export, fanout, config, auth>>
vars == <<storeVars, poolVars, clientVars, serviceVars, toolVars>>

----------------------------------------------------------------------------
(* Values *)

NULL == "NULL"
\* A missing CSV cell: pandas reads it as the float nan, which is no str.
NaN == <<"nan">>
\* SQL NULL in a text column of table transcriptions
NullText == <<"NULL">>

CallIds == {"c1", "c2"}
Statuses == {"completed", "failed"}

\* A transcription text is a sequence of tokens; "ERROR:" is the error marker and
\* " " is white space.
Texts == {NaN, <<" ">>, <<"ERROR:", "a">>, <<"a">>, <<"b">>}

\* Rows of a CSV file given to import, rows of a DataFrame in CSV mode
MaxImportRows == 1
MaxCsvRows == 2

BoundedSeq(S, n) == UNION {[1..m -> S] : m \in 0..n}

\* Python dicts: functions from a set of keys.
Dicts(Keys, Vals) ==
    UNION { {d \in [S -> UNION {Vals[k] : k \in S}] : \A k \in S : d[k] \in Vals[k]}
            : S \in SUBSET Keys }

HasKey(d, k) == k \in DOMAIN d
Get(d, k, default) == IF k \in DOMAIN d THEN d[k] ELSE default
Put(d, k, v) == [x \in DOMAIN d \cup {k} |-> IF x = k THEN v ELSE d[x]]
\* dict.update: the keys of e override those of d
Update(d, e) == [x \in DOMAIN d \cup DOMAIN e |-> IF x \in DOMAIN e THEN e[x] ELSE d[x]]

\* The threads that use the connection pool and the asyncio tasks that use the client.
Threads == {"t1", "t2", "t3"}
Tasks == {"a1", "a2"}

\* raised: how the last with-block of get_db_connection ended
IdleThread == [pc |-> "idle", conn |-> 0, waited |-> 0, raised |-> "none"]
IdleTask == [pc |-> "idle", attempt |-> 0, sleep |-> 0, requests |-> 0, failures |-> 0,
             result |-> [call_id |-> NULL]]

\* A part of the program that a specification leaves out stays as constructed.
StoreOff ==
    /\ store = "off"
    /\ transcriptions = <<>>
    /\ analysis_results = <<>>
    /\ call_transcriptions = <<>>
    /\ dao_save = <<>>
    /\ transcriptions_df = <<>>
    /\ analysis_df = <<>>
    /\ selected = <<>>
    /\ op = [name |-> "init"]

PoolOff ==
    /\ max_connections = 0
    /\ pool = <<>>
    /\ active_connections = 0
    /\ lock = "free"
    /\ thread = [t \in Threads |-> IdleThread]

ClientOff ==
    /\ rate_limited = FALSE
    /\ running = {}
    /\ task = [a \in Tasks |-> IdleTask]
    /\ since_last_call = 0
    /\ last_gap = 0

\* A float that the code computes by division, kept exact: num / den in lowest terms.
RECURSIVE Gcd(_, _)
Gcd(a, b) == IF b = 0 THEN a ELSE Gcd(b, a % b)

Frac(n, d) ==
    LET g == Gcd(n, d)
    IN  [num |-> n \div g, den |-> d \div g]

\* DbCallAnalysisService.__init__: self.stats.
NewStats ==
    [total_processed |-> 0, successful |-> 0, failed |-> 0, total_tokens |-> 0,
     total_cost |-> 0, avg_confidence |-> Frac(0, 1), avg_processing_time |-> Frac(0, 1)]

\* No service object: nothing runs process_transcriptions.
IdleService ==
    [pc |-> "idle", batch_size |-> 0, reanalyze |-> FALSE, work |-> <<>>, i |-> 0,
     valid_items |-> <<>>, client_results |-> <<>>, results |-> <<>>, handed |-> <<>>, errors |-> 0,
     save_returns |-> <<>>, stats_rows |-> 0, batches |-> 0, saved |-> 0,
     sum_confidence |-> 0,
     sum_processing_time |-> 0, tokens_reported |-> 0, cost_reported |-> 0]

NoScoring == [pc |-> "idle", result |-> [issue_summary |-> <<>>], score |-> 0]

NoChunking == [pc |-> "idle"]
NoCsvRun == [pc |-> "idle", batch_size |-> 0, work |-> <<>>, i |-> 0, batches |-> 0]
NoFile == [exists |-> FALSE, lines |-> <<>>]
NoExport ==
    [pc |-> "idle", path |-> "analysis_path", df |-> <<>>, written |-> 0,
     old |-> NoFile, analysis_path |-> NoFile, date_based_path |-> NoFile,
     backups |-> {}, read |-> NoFile]
ChunkingOff == chunking = NoChunking
CsvRunOff == csv_run = NoCsvRun
ExportOff == export = NoExport
NoFanout == [orchestrator |-> "none", batch_size |-> 0, i |-> 0, item |-> <<>>]
FanoutOff == fanout = NoFanout
NoConfig == [system_config |-> <<>>, saved |-> <<>>, got |-> [pc |-> "idle"]]
ConfigOff == config = NoConfig
NoAuth == [now |-> 0, is_active |-> FALSE, sessions |-> <<>>, issued |-> <<>>, invalidated |-> {}, ret |-> [name |-> "idle"]]
AuthOff == auth = NoAuth
NoSafeWrite == [pc |-> "idle", df |-> <<>>, create_backup |-> FALSE, written |-> 0, old |-> NoFile, file_path |-> NoFile, temp_file |-> NoFile, emergency_file |-> NoFile, backups |-> {}, read |-> NoFile, ret |-> "none"]
SafeWriteOff == safe_write = NoSafeWrite
ToolsOff ==
    /\ ChunkingOff
    /\ CsvRunOff
    /\ ExportOff
    /\ FanoutOff
    /\ ConfigOff
    /\ AuthOff
    /\ SafeWriteOff

ServiceOff ==
    /\ exit_requested = FALSE
    /\ service = IdleService
    /\ stats = NewStats
    /\ analysis_stats = <<>>
    /\ analysis_csv = <<>>
    /\ sent = <<>>
    /\ scoring = NoScoring

RowsWith(table, id) == {i \in 1..Len(table) : table[i].call_id = id}
RowOf(table, id) == table[CHOOSE i \in RowsWith(table, id) : TRUE]

----------------------------------------------------------------------------
(* str methods used on transcription texts *)

IsStr(t) == t # NaN

RECURSIVE LStrip(_)
LStrip(t) == IF t # <<>> /\ Head(t) = " " THEN LStrip(Tail(t)) ELSE t

RECURSIVE RStrip(_)
RStrip(t) ==
    IF t # <<>> /\ t[Len(t)] = " " THEN RStrip(SubSeq(t, 1, Len(t) - 1)) ELSE t

Strip(t) == RStrip(LStrip(t))

StartsWithError(t) == t # <<>> /\ Head(t) = "ERROR:"

\* hashlib.md5(text).hexdigest(): a digest, equal exactly for equal texts
Md5(t) == <<"md5", t>>

----------------------------------------------------------------------------
(* SQLite statements *)

\* INSERT INTO table (DOMAIN given) VALUES (given) ON CONFLICT(call_id) DO UPDATE SET
\* f = excluded.f for f in updateFields.  Columns absent from `given` take NULL on
\* insert and keep their value on update.  NOT NULL is checked first, then the
\* conflict on call_id, then (for a new row) the foreign key into `parents`.
SqlInsertAppend(table, columns, given, updateFields, notNull, parents) ==
    LET newRow == [c \in columns |-> IF c \in DOMAIN given THEN given[c] ELSE NULL]
    IN  [ok |-> TRUE, existed |-> FALSE, table |-> Append(table, newRow)]

SqlUpsert(table, columns, given, updateFields, notNull, parents) ==
    LET newRow == [c \in columns |-> IF c \in DOMAIN given THEN given[c] ELSE NULL]
        hits == RowsWith(table, newRow.call_id)
    IN  IF \E c \in notNull : newRow[c] = NULL
        THEN [ok |-> FALSE, existed |-> hits # {}, table |-> table]
        ELSE IF hits # {}
        THEN [ok |-> TRUE, existed |-> TRUE,
              table |-> [i \in 1..Len(table) |->
                           IF i \in hits
                           THEN [c \in columns |->
                                   IF c \in updateFields THEN given[c] ELSE table[i][c]]
                           ELSE table[i]]]
        ELSE IF newRow.call_id \notin parents
        THEN [ok |-> FALSE, existed |-> FALSE, table |-> table]
        ELSE [ok |-> TRUE, existed |-> FALSE, table |-> Append(table, newRow)]

----------------------------------------------------------------------------
(* database_manager.py: DatabaseManager *)

\* The columns of analysis_results that the model keeps (of those in the schema).
ManagerColumns == {"call_id", "analysis_status", "api_error"}
ManagerNotNull == {"call_id", "analysis_status"}

\* CSV rows read by pandas: file_name and transcription.
CsvRows == [file_name : CallIds, transcription : Texts]

\* Result dicts handed to save_analysis_result; "error" is a key that is no column.
ResultDicts ==
    Dicts({"call_id", "analysis_status", "api_error", "error"},
          [call_id |-> CallIds \cup {""}, analysis_status |-> Statuses,
           api_error |-> {"err"}, error |-> {"e"}])

MaxOf(S) == IF S = {} THEN 0 ELSE CHOOSE m \in S : \A x \in S : x <= m

\* datetime('now') has a resolution of one second: only the order of the
\* timestamps and their ties are kept, as dense ranks.
DenseRanks(table) ==
    LET stamps == {table[i].import_timestamp : i \in 1..Len(table)}
    IN  [i \in 1..Len(table) |->
           [table[i] EXCEPT !.import_timestamp =
               Cardinality({s \in stamps : s < table[i].import_timestamp})]]

NeverSameHash(stored, text) == FALSE

\* result['hash_value'] == hash_value
SameHash(stored, text) == stored.hash_value = Md5(text)

\* INSERT OR REPLACE: the stored row gives way to the new one.
InsertOrReplace(stored, excluded) == excluded

\* ON CONFLICT(call_id) DO UPDATE SET transcription, hash_value, import_timestamp
OnConflictUpdate(stored, excluded) ==
    [stored EXCEPT !.transcription = excluded.transcription,
                   !.hash_value = excluded.hash_value,
                   !.import_timestamp = excluded.import_timestamp]

\* One row of the loop of import_transcriptions_from_csv.
ImportRow(row, table, now) ==
    LET text == row.transcription
        hits == RowsWith(table, row.file_name)
        excluded == [call_id |-> row.file_name,
                     duration_seconds |-> Get(row, "duration_seconds", 0),
                     transcription |-> text,
                     hash_value |-> Md5(text),
                     import_timestamp |-> now]
    IN  IF ~IsStr(text) \/ Strip(text) = <<>> \/ StartsWithError(text)
        THEN [table |-> table, imported |-> 0]
        ELSE IF hits # {} /\ SameHash(RowOf(table, row.file_name), text)
        THEN [table |-> table, imported |-> 0]
        ELSE IF hits # {}
        THEN [table |-> [i \in 1..Len(table) |->
                           IF i \in hits
                           THEN OnConflictUpdate(table[i], excluded)
                           ELSE table[i]],
              imported |-> 1]
        ELSE [table |-> Append(table, excluded), imported |-> 1]

RECURSIVE ImportRows(_, _, _, _)
ImportRows(rows, table, count, now) ==
    IF rows = <<>>
    THEN [table |-> table, count |-> count]
    ELSE LET r == ImportRow(Head(rows), table, now)
         IN  ImportRows(Tail(rows), r.table, count + r.imported, now)

\* ORDER BY import_timestamp DESC; rows with equal timestamps stay in rowid order.
RECURSIVE InsertByTimestamp(_, _)
InsertByTimestamp(row, sorted) ==
    IF sorted = <<>> THEN <<row>>
    ELSE IF row.import_timestamp > Head(sorted).import_timestamp
    THEN <<row>> \o sorted
    ELSE <<Head(sorted)>> \o InsertByTimestamp(row, Tail(sorted))

RECURSIVE OrderByImportTimestampDesc(_)
OrderByImportTimestampDesc(table) ==
    IF table = <<>> THEN <<>>
    ELSE InsertByTimestamp(table[Len(table)],
                           OrderByImportTimestampDesc(SubSeq(table, 1, Len(table) - 1)))

\* a.call_id IS NULL OR a.analysis_status != 'completed', on one joined row;
\* a is all NULL for a transcription that LEFT JOIN found no analysis for.
NotCompletedAny(a) == a.call_id = NULL

NotCompleted(a) == a.call_id = NULL \/ a.analysis_status # "completed"

NullRow(columns) == [c \in columns |-> NULL]

\* transcriptions t LEFT JOIN analysis_results a ON t.call_id = a.call_id
RECURSIVE LeftJoin(_, _)
LeftJoin(ts, results) ==
    IF ts = <<>> THEN <<>>
    ELSE LET t == Head(ts)
             hits == RowsWith(results, t.call_id)
             joined == IF hits = {} THEN <<[t |-> t, a |-> NullRow(ManagerColumns)]>>
                       ELSE [j \in 1..Cardinality(hits) |->
                               [t |-> t,
                                a |-> results[CHOOSE i \in hits :
                                        Cardinality({h \in hits : h < i}) = j - 1]]]
         IN  joined \o LeftJoin(Tail(ts), results)

NonEmptyText(t) == t.transcription # NullText /\ t.transcription # <<>>

\* get_transcriptions_for_analysis(limit, reanalyze); limit = 0 stands for None.
GetTranscriptionsForAnalysis(table, results, limit, reanalyze) ==
    LET ordered == OrderByImportTimestampDesc(table)
        rows == IF reanalyze
                THEN SelectSeq(ordered, NonEmptyText)
                ELSE LET joined == LeftJoin(ordered, results)
                         kept == SelectSeq(joined,
                                   LAMBDA j : NonEmptyText(j.t) /\ NotCompleted(j.a))
                     IN  [i \in 1..Len(kept) |-> kept[i].t]
        cut == IF limit # 0 /\ limit < Len(rows) THEN SubSeq(rows, 1, limit) ELSE rows
    IN  [i \in 1..Len(cut) |->
           [call_id |-> cut[i].call_id, transcription |-> cut[i].transcription]]

\* save_analysis_result(result): the statement it builds and runs.
SaveAnalysisResultStmt(results, parents, result) ==
    LET given == [c \in DOMAIN result \cap ManagerColumns |-> result[c]]
    IN  SqlUpsert(results, ManagerColumns, given, DOMAIN given, ManagerNotNull, parents)

Op(name, id, existed, ok, count, reanalyze) ==
    [name |-> name, id |-> id, existed |-> existed, ok |-> ok, count |-> count,
     reanalyze |-> reanalyze]

ImportTranscriptionsFromCsv(csv) ==
    /\ store = "database_manager"
    /\ \E later \in BOOLEAN :
         LET last == MaxOf({transcriptions[i].import_timestamp :
                              i \in 1..Len(transcriptions)})
             now == IF later THEN last + 1 ELSE last
             r == ImportRows(csv, transcriptions, 0, now)
         IN  /\ transcriptions' = DenseRanks(r.table)
             /\ op' = Op("import_transcriptions_from_csv", NULL, FALSE, TRUE, r.count,
                         FALSE)
    /\ selected' = <<>>
    /\ UNCHANGED <<poolVars, clientVars, serviceVars, toolVars>>
    /\ UNCHANGED <<store, analysis_results, call_transcriptions, dao_save,
                   transcriptions_df, analysis_df>>

\* `if not call_id`: the key is absent, or its value is None or ''.
NeverLacks(result) == FALSE

LacksCallId(result) == Get(result, "call_id", "") = ""

\* save_analysis_result(result) on the tables given: what it returns, what it
\* leaves in analysis_results, and whether it got as far as running a statement.
SaveAnalysisResultReturn(results, parents, result) ==
    IF LacksCallId(result)
    THEN [ok |-> FALSE, existed |-> FALSE, table |-> results, ran |-> FALSE]
    ELSE LET r == SaveAnalysisResultStmt(results, parents, result)
         IN  [ok |-> r.ok, existed |-> r.existed, table |-> r.table, ran |-> TRUE]

SaveAnalysisResult(result) ==
    /\ store = "database_manager"
    /\ LET parents == {transcriptions[i].call_id : i \in 1..Len(transcriptions)}
           r == SaveAnalysisResultReturn(analysis_results, parents, result)
       IN  /\ analysis_results' = r.table
           /\ op' = Op("save_analysis_result",
                       IF r.ran THEN Get(result, "call_id", NULL) ELSE NULL,
                       r.existed, r.ok, 0, FALSE)
    /\ selected' = <<>>
    /\ UNCHANGED <<poolVars, clientVars, serviceVars, toolVars>>
    /\ UNCHANGED <<store, transcriptions, call_transcriptions, dao_save,
                   transcriptions_df, analysis_df>>

\* DbDataManager.get_transcriptions_for_analysis(reanalyze): no limit is passed.
SelectWork(reanalyze) ==
    /\ store = "database_manager"
    /\ selected' = GetTranscriptionsForAnalysis(transcriptions, analysis_results, 0,
                                                reanalyze)
    /\ op' = Op("get_transcriptions_for_analysis", NULL, FALSE, TRUE, 0, reanalyze)
    /\ UNCHANGED <<poolVars, clientVars, serviceVars, toolVars>>
    /\ UNCHANGED <<store, transcriptions, analysis_results, call_transcriptions,
                   dao_save, transcriptions_df, analysis_df>>

----------------------------------------------------------------------------
(* call_analysis.py: CallAnalysisService, the CSV mode *)

AnalysisDfRows == [call_id : CallIds, analysis_status : Statuses]

\* filter_transcriptions(transcriptions_df, analysis_df, reanalyze)
FilterTranscriptions(df, adf, reanalyze) ==
    LET invalid(row) == \/ ~IsStr(row.transcription)
                        \/ Strip(row.transcription) = <<>>
                        \/ StartsWithError(row.transcription)
        hits(row) == RowsWith(adf, row.file_name)
        \* analysis_df[analysis_df['call_id'] == file_name]['analysis_status'].iloc[0]
        status(row) == adf[CHOOSE i \in hits(row) : \A h \in hits(row) : i <= h]
                          .analysis_status
        done(row) == /\ ~reanalyze
                     /\ adf # <<>>
                     /\ hits(row) # {}
                     /\ status(row) = "completed"
        kept == SelectSeq(df, LAMBDA row : ~invalid(row) /\ ~done(row))
    IN  [i \in 1..Len(kept) |->
           [call_id |-> kept[i].file_name, transcription |-> kept[i].transcription]]

FilterWork(reanalyze) ==
    /\ store = "csv"
    /\ selected' = FilterTranscriptions(transcriptions_df, analysis_df, reanalyze)
    /\ op' = Op("filter_transcriptions", NULL, FALSE, TRUE, 0, reanalyze)
    /\ UNCHANGED <<poolVars, clientVars, serviceVars, toolVars>>
    /\ UNCHANGED <<store, transcriptions, analysis_results, call_transcriptions,
                   dao_save, transcriptions_df, analysis_df>>

----------------------------------------------------------------------------
(* dao/analysis_dao.py, dao/base_dao.py, dao/transcription_dao.py over the      *)
(* schema of setup_database.py                                                  *)

\* The columns of analysis_results that the model keeps (of those in the schema);
\* of call_transcriptions it keeps call_id and analyzed.
DaoColumns == {"call_id", "analysis_status", "raw_json"}
DaoNotNull == {"analysis_status"}

\* The keys AnalysisResultDAO.save leaves at the top level of analysis_data.
DaoTopLevelKeys == {"call_id", "analysis_status", "primary_issue_category",
                    "specific_issue", "issue_severity", "confidence_score",
                    "api_error", "issue_summary", "processing_time_ms", "model",
                    "call_date", "analysis_date", "raw_json"}

\* Analysis dicts handed to the DAO layer; "note" is a key outside DaoTopLevelKeys.
\* The call ids the DAO layer is exercised with: its callers race on one row.
DaoCallIds == {"c1"}

AnalysisDicts ==
    Dicts({"call_id", "analysis_status", "note"},
          [call_id |-> DaoCallIds, analysis_status |-> {"completed", "failed"},
           note |-> {"n"}])

TranscriptionDicts ==
    Dicts({"call_id", "file_name", "analyzed"},
          [call_id |-> DaoCallIds, file_name |-> {"f.wav"}, analyzed |-> {"0", "1"}])

Callers == {"w1", "w2"}

\* json.dumps of the fields moved out of analysis_data
JsonDumps(fields) == IF HasKey(fields, "note") THEN "{note: n}" ELSE "{}"

\* The first part of AnalysisResultDAO.save: the keys outside DaoTopLevelKeys are
\* popped into raw_json.  (The fields the method then copies from raw_json are
\* issue_classification and issue_summary, which no modelled dict carries.)
PackRawJson(analysis_data) ==
    LET extra == DOMAIN analysis_data \ DaoTopLevelKeys
        top == [k \in DOMAIN analysis_data \cap DaoTopLevelKeys |-> analysis_data[k]]
    IN  IF ~HasKey(analysis_data, "raw_json") /\ extra # {}
        THEN Put(top, "raw_json", JsonDumps([k \in extra |-> analysis_data[k]]))
        ELSE analysis_data

\* INSERT INTO table (DOMAIN given) VALUES (given): fails on NOT NULL and on a
\* second row for a call_id (PRIMARY KEY).
SqlInsert(table, columns, given, notNull) ==
    LET newRow == [c \in columns |-> IF c \in DOMAIN given THEN given[c] ELSE NULL]
    IN  IF \/ \E c \in notNull : newRow[c] = NULL
           \/ RowsWith(table, newRow.call_id) # {}
        THEN [ok |-> FALSE, table |-> table]
        ELSE [ok |-> TRUE, table |-> Append(table, newRow)]

\* UPDATE table SET f = given[f] for f in fields WHERE call_id = id: a syntax error
\* when there is no field, and no error when no row matches.
SqlUpdate(table, given, fields, id) ==
    IF fields = {}
    THEN [ok |-> FALSE, table |-> table]
    ELSE [ok |-> TRUE,
          table |-> [i \in 1..Len(table) |->
                       IF table[i].call_id = id
                       THEN [c \in DOMAIN table[i] |->
                               IF c \in fields THEN given[c] ELSE table[i][c]]
                       ELSE table[i]]]

IdleSave == [pc |-> "idle", data |-> [call_id |-> NULL], exists |-> FALSE]

\* AnalysisResultDAO.save up to the SELECT COUNT(*) that decides insert or update.
DaoSaveBegin(c, analysis_data) ==
    /\ store = "dao"
    /\ dao_save[c].pc = "idle"
    /\ IF ~HasKey(analysis_data, "call_id")
       THEN /\ op' = Op("AnalysisResultDAO.save", NULL, FALSE, FALSE, 0, FALSE)
            /\ UNCHANGED dao_save
       ELSE LET data == PackRawJson(analysis_data)
            IN  /\ dao_save' = [dao_save EXCEPT ![c] =
                      [pc |-> "checked", data |-> data,
                       exists |-> RowsWith(analysis_results, data.call_id) # {}]]
                /\ op' = Op("AnalysisResultDAO.save:select", data.call_id,
                            RowsWith(analysis_results, data.call_id) # {}, TRUE, 0,
                            FALSE)
    /\ selected' = <<>>
    /\ UNCHANGED <<poolVars, clientVars, serviceVars, toolVars>>
    /\ UNCHANGED <<store, transcriptions, analysis_results, call_transcriptions,
                   transcriptions_df, analysis_df>>

\* The write of AnalysisResultDAO.save, its commit, and
\* _update_transcription_analyzed.
DaoSaveStmt(table, data, exists) ==
    IF exists
    THEN SqlUpdate(table, data, (DOMAIN data \cap DaoColumns) \ {"call_id"}, data.call_id)
    ELSE SqlInsert(table, DaoColumns,
                   [c \in DOMAIN data \cap DaoColumns |-> data[c]], DaoNotNull)

DaoSaveEnd(c) ==
    /\ store = "dao"
    /\ dao_save[c].pc = "checked"
    /\ LET data == dao_save[c].data
           r == DaoSaveStmt(analysis_results, data, dao_save[c].exists)
       IN  /\ analysis_results' = r.table
           /\ call_transcriptions' =
                 IF r.ok
                 THEN [i \in 1..Len(call_transcriptions) |->
                         IF call_transcriptions[i].call_id = data.call_id
                         THEN [call_transcriptions[i] EXCEPT !.analyzed = "1"]
                         ELSE call_transcriptions[i]]
                 ELSE call_transcriptions
           /\ op' = Op("AnalysisResultDAO.save", data.call_id, dao_save[c].exists, r.ok,
                       0, FALSE)
    /\ dao_save' = [dao_save EXCEPT ![c] = IdleSave]
    /\ selected' = <<>>
    /\ UNCHANGED <<poolVars, clientVars, serviceVars, toolVars>>
    /\ UNCHANGED <<store, transcriptions, transcriptions_df, analysis_df>>

\* BaseDAO.insert_or_update("analysis_results", data, "call_id"); its connection
\* turns foreign keys on.  The data always carries its key.
InsertOrUpdateStmt(table, parents, data, id_field) ==
    LET given == [c \in DOMAIN data \cap DaoColumns |-> data[c]]
        update_fields == DOMAIN given \ {id_field}
    IN  IF update_fields = {}
        THEN [ok |-> FALSE, existed |-> RowsWith(table, data.call_id) # {},
              table |-> table]
        ELSE SqlUpsert(table, DaoColumns, given, update_fields, DaoNotNull, parents)

InsertOrUpdate(data) ==
    /\ store = "dao"
    /\ HasKey(data, "call_id")
    /\ LET parents == {call_transcriptions[i].call_id :
                          i \in 1..Len(call_transcriptions)}
           r == InsertOrUpdateStmt(analysis_results, parents, data, "call_id")
       IN  /\ analysis_results' = r.table
           /\ op' = Op("insert_or_update", data.call_id, r.existed, r.ok, 0, FALSE)
    /\ selected' = <<>>
    /\ UNCHANGED <<poolVars, clientVars, serviceVars, toolVars>>
    /\ UNCHANGED <<store, transcriptions, call_transcriptions, dao_save,
                   transcriptions_df, analysis_df>>

\* TranscriptionDAO.save(transcription_data)
TranscriptionDaoSave(data) ==
    /\ store = "dao"
    /\ IF ~HasKey(data, "call_id")
       THEN /\ op' = Op("TranscriptionDAO.save", NULL, FALSE, FALSE, 0, FALSE)
            /\ UNCHANGED call_transcriptions
       ELSE LET hits == RowsWith(call_transcriptions, data.call_id)
                \* file_name TEXT NOT NULL: an INSERT without it fails
                ok == hits # {} \/ HasKey(data, "file_name")
            IN  /\ call_transcriptions' =
                     IF hits # {}
                     THEN [i \in 1..Len(call_transcriptions) |->
                             IF i \in hits
                             THEN [c \in {"call_id", "analyzed"} |->
                                     IF c \in DOMAIN data THEN data[c]
                                     ELSE call_transcriptions[i][c]]
                             ELSE call_transcriptions[i]]
                     ELSE IF ok
                     THEN Append(call_transcriptions,
                                 [call_id |-> data.call_id,
                                  analyzed |-> Get(data, "analyzed", "0")])
                     ELSE call_transcriptions
                /\ op' = Op("TranscriptionDAO.save", data.call_id, hits # {}, ok, 0,
                            FALSE)
    /\ selected' = <<>>
    /\ UNCHANGED <<poolVars, clientVars, serviceVars, toolVars>>
    /\ UNCHANGED <<store, transcriptions, analysis_results, dao_save,
                   transcriptions_df, analysis_df>>

\* TranscriptionDAO.delete(call_id): DELETE FROM call_transcriptions WHERE call_id = ?
\* on a connection of _get_connection, which leaves PRAGMA foreign_keys at its
\* default (off): ON DELETE CASCADE does not act on analysis_results.
TranscriptionDaoDelete(call_id) ==
    /\ store = "dao"
    /\ call_transcriptions' =
          SelectSeq(call_transcriptions, LAMBDA row : row.call_id # call_id)
    /\ op' = Op("TranscriptionDAO.delete", call_id,
                RowsWith(call_transcriptions, call_id) # {},
                RowsWith(call_transcriptions, call_id) # {}, 0, FALSE)
    /\ selected' = <<>>
    /\ UNCHANGED <<poolVars, clientVars, serviceVars, toolVars>>
    /\ UNCHANGED <<store, transcriptions, analysis_results, dao_save,
                   transcriptions_df, analysis_df>>

----------------------------------------------------------------------------
(* The persistence layer *)

InitStore ==
    /\ store \in {"database_manager", "dao", "csv"}
    /\ transcriptions = <<>>
    /\ analysis_results = <<>>
    /\ call_transcriptions = <<>>
    /\ dao_save = [c \in Callers |-> IdleSave]
    /\ IF store = "csv"
       THEN /\ transcriptions_df \in BoundedSeq(CsvRows, MaxCsvRows)
            /\ analysis_df \in BoundedSeq(AnalysisDfRows, MaxCsvRows)
       ELSE /\ transcriptions_df = <<>>
            /\ analysis_df = <<>>
    /\ selected = <<>>
    /\ op = Op("init", NULL, FALSE, TRUE, 0, FALSE)
    /\ PoolOff
    /\ ClientOff
    /\ ServiceOff
    /\ ToolsOff

NextStore ==
    \/ \E csv \in BoundedSeq(CsvRows, MaxImportRows) : ImportTranscriptionsFromCsv(csv)
    \/ \E result \in ResultDicts : SaveAnalysisResult(result)
    \/ \E reanalyze \in BOOLEAN : SelectWork(reanalyze)
    \/ \E reanalyze \in BOOLEAN : FilterWork(reanalyze)
    \/ \E c \in Callers, data \in AnalysisDicts : DaoSaveBegin(c, data)
    \/ \E c \in Callers : DaoSaveEnd(c)
    \/ \E data \in AnalysisDicts : InsertOrUpdate(data)
    \/ \E data \in TranscriptionDicts : TranscriptionDaoSave(data)
    \/ \E call_id \in DaoCallIds : TranscriptionDaoDelete(call_id)

SpecStore == InitStore /\ [][NextStore]_vars

\* DbDataManager.load_transcriptions and get_transcriptions_for_analysis alone, on
\* files of up to MaxReimportRows rows.
MaxReimportRows == 2

InitImport == InitStore /\ store = "database_manager"

NextImport ==
    \/ \E csv \in BoundedSeq(CsvRows, MaxReimportRows) : ImportTranscriptionsFromCsv(csv)
    \/ \E reanalyze \in BOOLEAN : SelectWork(reanalyze)

SpecImport == InitImport /\ [][NextImport]_vars

----------------------------------------------------------------------------
(* dao/db_connection_pool.py: ConnectionPool used by concurrent threads *)

MaxPoolSize == 3
\* ConnectionPool.timeout, in ticks of the clock
PoolTimeout == 2

Held == {thread[t].conn : t \in Threads} \ {0}

\* sqlite3.connect: a connection object distinct from every live one
NewConnection ==
    CHOOSE c \in 1..(Cardinality(Threads) + 1) :
        /\ c \notin Held
        /\ \A i \in 1..Len(pool) : pool[i] # c
        /\ \A d \in 1..(c - 1) : d \in Held \/ \E i \in 1..Len(pool) : pool[i] = d

QueuePeek(q) == q

\* queue.Queue.get: the item at the head leaves the queue with the call that
\* returns it
QueueGet(q) == Tail(q)

LockAlwaysFree(t) == TRUE

\* threading.RLock: free, or owned by the thread that asks again
LockFree(t) == lock = "free" \/ lock = t

NeverExpires(waited) == FALSE

\* queue.Queue.get(timeout=self.timeout): the deadline has passed
Expired(waited) == waited >= PoolTimeout

\* get_connection: pool.get(block=False), which returns a connection or raises Empty
GetConnection(t) ==
    /\ max_connections > 0
    /\ thread[t].pc = "idle"
    /\ IF pool # <<>>
       THEN /\ thread' = [thread EXCEPT ![t] = [pc |-> "holding", conn |-> Head(pool),
                                                waited |-> 0, raised |-> "none"]]
            /\ pool' = QueueGet(pool)
       ELSE /\ thread' = [thread EXCEPT ![t] = [IdleThread EXCEPT !.pc = "empty"]]
            /\ UNCHANGED pool
    /\ UNCHANGED <<max_connections, active_connections, lock>>
    /\ UNCHANGED <<storeVars, clientVars, serviceVars, toolVars>>

\* get_connection: "with self.lock:"
AcquireLock(t) ==
    /\ thread[t].pc = "empty"
    /\ LockFree(t)
    /\ lock' = t
    /\ thread' = [thread EXCEPT ![t].pc = "locked"]
    /\ UNCHANGED <<max_connections, pool, active_connections>>
    /\ UNCHANGED <<storeVars, clientVars, serviceVars, toolVars>>

\* get_connection: "if self.active_connections < self.max_connections:"; when it
\* fails the lock is released and the thread enters pool.get(timeout=self.timeout)
CheckLimit(t) ==
    /\ thread[t].pc = "locked"
    /\ IF active_connections < max_connections
       THEN /\ thread' = [thread EXCEPT ![t].pc = "create"]
            /\ UNCHANGED lock
       ELSE /\ thread' = [thread EXCEPT ![t].pc = "wait"]
            /\ lock' = "free"
    /\ UNCHANGED <<max_connections, pool, active_connections>>
    /\ UNCHANGED <<storeVars, clientVars, serviceVars, toolVars>>

\* _create_connection called from get_connection, and the return that releases the
\* lock
CreateConnection(t) ==
    /\ thread[t].pc = "create"
    /\ LockFree(t)
    /\ active_connections' = active_connections + 1
    /\ thread' = [thread EXCEPT ![t] = [pc |-> "holding", conn |-> NewConnection,
                                        waited |-> 0, raised |-> "none"]]
    /\ lock' = "free"
    /\ UNCHANGED <<max_connections, pool>>
    /\ UNCHANGED <<storeVars, clientVars, serviceVars, toolVars>>

\* pool.get(timeout=self.timeout) returns a connection that was put back
WaitGet(t) ==
    /\ thread[t].pc = "wait"
    /\ pool # <<>>
    /\ thread' = [thread EXCEPT ![t].pc = "holding", ![t].conn = Head(pool)]
    /\ pool' = QueueGet(pool)
    /\ UNCHANGED <<max_connections, active_connections, lock>>
    /\ UNCHANGED <<storeVars, clientVars, serviceVars, toolVars>>

\* pool.get(timeout=self.timeout) raises Empty, which get_connection turns into
\* TimeoutError
TimeoutRaise(t) ==
    /\ thread[t].pc = "wait"
    /\ pool = <<>>
    /\ Expired(thread[t].waited)
    /\ thread' = [thread EXCEPT ![t].pc = "timedout"]
    /\ UNCHANGED <<max_connections, pool, active_connections, lock>>
    /\ UNCHANGED <<storeVars, clientVars, serviceVars, toolVars>>

\* The caller has handled the TimeoutError.
AfterTimeout(t) ==
    /\ thread[t].pc = "timedout"
    /\ thread' = [thread EXCEPT ![t] = IdleThread]
    /\ UNCHANGED <<max_connections, pool, active_connections, lock>>
    /\ UNCHANGED <<storeVars, clientVars, serviceVars, toolVars>>

\* The clock advances for the threads that wait in pool.get(timeout=...).
PoolTick ==
    /\ \E t \in Threads : thread[t].pc = "wait" /\ thread[t].waited < PoolTimeout
    /\ thread' = [t \in Threads |->
                    IF thread[t].pc = "wait" /\ thread[t].waited < PoolTimeout
                    THEN [thread[t] EXCEPT !.waited = @ + 1]
                    ELSE thread[t]]
    /\ UNCHANGED <<max_connections, pool, active_connections, lock>>
    /\ UNCHANGED <<storeVars, clientVars, serviceVars, toolVars>>

\* return_connection(conn) with the connection the thread holds: pool.put(conn,
\* block=False), and on Full the connection is closed and the count decremented
\* under the lock.
ReturnConnection(t) ==
    /\ thread[t].pc = "holding"
    /\ IF Len(pool) < max_connections
       THEN /\ pool' = Append(pool, thread[t].conn)
            /\ UNCHANGED active_connections
       ELSE /\ LockFree(t)
            /\ active_connections' = active_connections - 1
            /\ UNCHANGED pool
    /\ thread' = [thread EXCEPT ![t] = IdleThread]
    /\ UNCHANGED <<max_connections, lock>>
    /\ UNCHANGED <<storeVars, clientVars, serviceVars, toolVars>>

\* How a with-block of get_db_connection ends: it completes, or it raises
\* sqlite3.Error, or it raises another exception.
BlockExits == {"completed", "sqlite3.Error", "Exception"}

ReturnsOnSuccess(raised) == raised = "completed"

\* "finally: if conn: pool.return_connection(conn)" runs however the block ends
ReturnsOnExit(raised) == raised \in BlockExits

\* get_db_connection after the yield: the with-block of the caller has ended.  On
\* sqlite3.Error the connection is rolled back and the error raised again; the
\* finally clause calls return_connection(conn).
ExitDbConnection(t, raised) ==
    /\ thread[t].pc = "holding"
    /\ IF ~ReturnsOnExit(raised)
       THEN UNCHANGED <<pool, active_connections>>
       ELSE IF Len(pool) < max_connections
       THEN /\ pool' = Append(pool, thread[t].conn)
            /\ UNCHANGED active_connections
       ELSE /\ LockFree(t)
            /\ active_connections' = active_connections - 1
            /\ UNCHANGED pool
    /\ thread' = [thread EXCEPT ![t] = [IdleThread EXCEPT !.raised = raised]]
    /\ UNCHANGED <<max_connections, lock>>
    /\ UNCHANGED <<storeVars, clientVars, serviceVars, toolVars>>

\* close_all, one round of its loop: pool.get(block=False) and conn.close()
CloseAll(t) ==
    /\ thread[t].pc = "idle"
    /\ pool # <<>>
    /\ pool' = QueueGet(pool)
    /\ thread' = [thread EXCEPT ![t].pc = "closing"]
    /\ UNCHANGED <<max_connections, active_connections, lock>>
    /\ UNCHANGED <<storeVars, clientVars, serviceVars, toolVars>>

\* close_all: "with self.lock: self.active_connections -= 1"
CloseDecrement(t) ==
    /\ thread[t].pc = "closing"
    /\ LockFree(t)
    /\ active_connections' = active_connections - 1
    /\ thread' = [thread EXCEPT ![t] = IdleThread]
    /\ UNCHANGED <<max_connections, pool, lock>>
    /\ UNCHANGED <<storeVars, clientVars, serviceVars, toolVars>>

\* ConnectionPool.__init__: _initialize_pool calls _create_connection and drops the
\* connection it returns.
InitPool ==
    /\ max_connections \in 1..MaxPoolSize
    /\ pool = <<>>
    /\ active_connections = 0 + 1
    /\ lock = "free"
    /\ thread = [t \in Threads |-> IdleThread]
    /\ StoreOff
    /\ ClientOff
    /\ ServiceOff
    /\ ToolsOff

NextPool ==
    \/ \E t \in Threads : GetConnection(t)
    \/ \E t \in Threads : AcquireLock(t)
    \/ \E t \in Threads : CheckLimit(t)
    \/ \E t \in Threads : CreateConnection(t)
    \/ \E t \in Threads : WaitGet(t)
    \/ \E t \in Threads : TimeoutRaise(t)
    \/ \E t \in Threads : AfterTimeout(t)
    \/ PoolTick
    \/ \E t \in Threads : ReturnConnection(t)
    \/ \E t \in Threads : CloseAll(t)
    \/ \E t \in Threads : CloseDecrement(t)

SpecPool == InitPool /\ [][NextPool]_vars

\* A thread that waits in pool.get(timeout=...) is woken when a connection is put
\* back and at its deadline, and the clock advances.
SpecPoolFair ==
    /\ SpecPool
    /\ WF_vars(PoolTick)
    /\ \A t \in Threads : WF_vars(WaitGet(t) \/ TimeoutRaise(t))

CheckedOut == {t \in Threads : thread[t].pc = "holding"}

\* C3: active_connections never exceeds max_connections, and neither does the
\* number of connections checked out, under any interleaving of the threads.
C3_PoolBound ==
    /\ active_connections <= max_connections
    /\ Cardinality(CheckedOut) <= max_connections

\* The pool at its limit: the count equals max_connections = 2 while one thread
\* holds a connection and another waits.
C3_Witness ==
    /\ max_connections = 2
    /\ active_connections = max_connections
    /\ \E t, u \in Threads : thread[t].pc = "holding" /\ thread[u].pc = "wait"

\* C4 as stated: a thread blocks in get_connection only when max_connections
\* connections are checked out; with fewer checked out the call returns an idle
\* connection or opens a new one.
C4_NoWaitBelowLimit ==
    \A t \in Threads :
        (thread[t].pc = "wait" /\ pool = <<>>) =>
            Cardinality({u \in Threads : thread[u].pc \in {"holding", "create"}})
                = max_connections

\* C5: a thread that waits in get_connection either receives a connection or gets
\* TimeoutError.
C5_WaitEnds ==
    \A t \in Threads :
        (thread[t].pc = "wait") ~> (thread[t].pc \in {"holding", "timedout"})

\* One waiter has timed out and another was handed a connection while it waited.
C5_Witness ==
    \E t, u \in Threads :
        /\ thread[t].pc = "timedout"
        /\ thread[u].pc = "holding"
        /\ thread[u].waited > 0

\* C27: a connection that get_connection has returned is held by that caller alone
\* until the caller returns it: no two threads hold the same connection, and a
\* connection that is held is not in the pool for another get_connection to take.
C27_ExclusiveCheckout ==
    /\ \A t, u \in CheckedOut : t # u => thread[t].conn # thread[u].conn
    /\ \A t \in CheckedOut : \A i \in 1..Len(pool) : pool[i] # thread[t].conn

\* Two threads hold connections, and one of them took from the pool a connection
\* that another caller had returned, while a third connection-seeker finds the
\* pool empty.
C27_Witness ==
    \E t, u \in CheckedOut :
        /\ t # u
        /\ thread[t].conn # 0
        /\ thread[u].conn # 0
        /\ thread[u].waited > 0
        /\ pool = <<>>

----------------------------------------------------------------------------
(* The two OpenAIClient classes: api/clients/openai_client.py, which limits its *)
(* request rate, and call_analysis.py, which does not.  Tasks share one client. *)

max_retries == 2
\* 60.0 / rate_limit_rpm, in seconds
min_seconds_between_calls == 2

\* The call each task analyses.
CallOf(a) == IF a = "a1" THEN "c1" ELSE "c2"

\* A response text is a sequence of tokens: braces, the members of a JSON object,
\* and "text" for anything that is no JSON.
JsonMembers == {"issue_summary", "call_id", "other"}
MemberValue(k) == IF k = "call_id" THEN "c9" ELSE "v"

Contents == {<<"{", "issue_summary", "}">>, <<"{", "call_id", "issue_summary", "}">>,
             <<"{", "other", "}">>, <<"text", "{", "issue_summary", "}">>,
             <<"text">>, <<"{", "text", "}">>, <<"[", "]">>}

\* What a request can come to: a completion with a text, a completion without
\* choices, RateLimitError or APITimeoutError, any other exception with its str().
Outcomes ==
    [kind : {"content"}, text : Contents, msg : {""}]
        \cup [kind : {"no_choices", "rate_limit"}, text : {<<>>}, msg : {""}]
        \cup [kind : {"error"}, text : {<<>>}, msg : {"", "boom"}]

\* json.loads: ok is FALSE for JSONDecodeError; object tells a dict from other JSON
JsonLoads(text) ==
    IF /\ Len(text) >= 2
       /\ text[1] = "{"
       /\ text[Len(text)] = "}"
       /\ \A i \in 2..(Len(text) - 1) : text[i] \in JsonMembers
    THEN [ok |-> TRUE, object |-> TRUE,
          value |-> [k \in {text[i] : i \in 2..(Len(text) - 1)} |-> MemberValue(k)]]
    ELSE IF text = <<"[", "]">>
         THEN [ok |-> TRUE, object |-> FALSE, value |-> <<>>]
         ELSE [ok |-> FALSE, object |-> FALSE, value |-> <<>>]

\* str.find and str.rfind, with 0 for "not found"
Find(text, tok) ==
    IF \E i \in 1..Len(text) : text[i] = tok
    THEN CHOOSE i \in 1..Len(text) : text[i] = tok /\ \A j \in 1..(i - 1) : text[j] # tok
    ELSE 0
RFind(text, tok) ==
    IF \E i \in 1..Len(text) : text[i] = tok
    THEN CHOOSE i \in 1..Len(text) :
            text[i] = tok /\ \A j \in (i + 1)..Len(text) : text[j] # tok
    ELSE 0

\* api/clients OpenAIClient._parse_json_response
ParseJsonResponse(text) ==
    LET stripped == Strip(text)
        start == Find(stripped, "{")
        end == RFind(stripped, "}")
    IN  IF start # 0 /\ end # 0 /\ end > start
        THEN LET loaded == JsonLoads(SubSeq(stripped, start, end))
             IN  IF loaded.ok THEN loaded.value
                 ELSE [api_error |-> "JSON parsing error"]
        ELSE [api_error |-> "No valid JSON found in response"]

NoDelay(since) == 0

\* _rate_limit: the delay it sleeps, 0 when it does not sleep
RateLimitDelay(since) ==
    IF since < min_seconds_between_calls THEN min_seconds_between_calls - since ELSE 0

FixedBackoff(limited, attempt) == 5

RECURSIVE Pow2(_)
Pow2(n) == IF n = 0 THEN 1 ELSE 2 * Pow2(n - 1)

\* The sleep before the next attempt: 2 ** attempt + 1 and 5 * (retry + 1)
Backoff(limited, attempt) == IF limited THEN Pow2(attempt) + 1 ELSE 5 * (attempt + 1)

\* The request leaves: _rate_limit has stamped last_call_time just before.
Send(a, t) ==
    /\ task' = [task EXCEPT ![a] = [t EXCEPT !.pc = "request", !.sleep = 0,
                                              !.requests = @ + 1]]
    /\ IF rate_limited
       THEN /\ since_last_call' = 0
            /\ last_gap' = since_last_call
       ELSE UNCHANGED <<since_last_call, last_gap>>

\* The top of the retry loop of the rate-limited client, and what follows the loop.
NextAttempt(a, t) ==
    /\ task' = [task EXCEPT ![a] =
                  IF t.attempt + 1 < max_retries
                  THEN [t EXCEPT !.pc = "rate_limit", !.attempt = @ + 1]
                  ELSE [t EXCEPT !.pc = "done", !.attempt = @ + 1,
                                 !.result = Put(@, "api_error", "Failed after attempts")]]
    /\ UNCHANGED <<since_last_call, last_gap>>

\* analyze_transcript is called; call_analysis.py sends its first request at once
AnalyzeTranscript(a) ==
    /\ a \in running
    /\ task[a].pc = "idle"
    /\ LET t == [IdleTask EXCEPT !.result = [call_id |-> CallOf(a)]]
       IN  IF rate_limited
           THEN /\ task' = [task EXCEPT ![a] = [t EXCEPT !.pc = "rate_limit"]]
                /\ UNCHANGED <<since_last_call, last_gap>>
           ELSE Send(a, t)
    /\ UNCHANGED <<rate_limited, running>>
    /\ UNCHANGED <<storeVars, poolVars, serviceVars, toolVars>>

\* _rate_limit up to its await, or through to the request when it does not sleep
RateLimit(a) ==
    /\ task[a].pc = "rate_limit"
    /\ LET delay == RateLimitDelay(since_last_call)
       IN  IF delay > 0
           THEN /\ task' = [task EXCEPT ![a].pc = "rl_sleep", ![a].sleep = delay]
                /\ UNCHANGED <<since_last_call, last_gap>>
           ELSE Send(a, task[a])
    /\ UNCHANGED <<rate_limited, running>>
    /\ UNCHANGED <<storeVars, poolVars, serviceVars, toolVars>>

\* _rate_limit after asyncio.sleep(delay): last_call_time = time.time(), then the
\* request
RateLimitWake(a) ==
    /\ task[a].pc = "rl_sleep"
    /\ task[a].sleep = 0
    /\ Send(a, task[a])
    /\ UNCHANGED <<rate_limited, running>>
    /\ UNCHANGED <<storeVars, poolVars, serviceVars, toolVars>>

\* api/clients/openai_client.py, analyze_transcript from the response on
RespondLimited(a, outcome) ==
    LET t == task[a]
        failed == [t EXCEPT !.failures = @ + 1]
    IN  CASE outcome.kind = "content" ->
               /\ task' = [task EXCEPT ![a] =
                     [t EXCEPT !.pc = "done",
                               !.result = Update(@, ParseJsonResponse(outcome.text))]]
               /\ UNCHANGED <<since_last_call, last_gap>>
          [] outcome.kind = "no_choices" -> NextAttempt(a, failed)
          [] outcome.kind = "rate_limit" ->
               /\ task' = [task EXCEPT ![a] =
                     [failed EXCEPT !.pc = "backoff", !.sleep = Backoff(TRUE, t.attempt)]]
               /\ UNCHANGED <<since_last_call, last_gap>>
          [] outcome.kind = "error" ->
               IF t.attempt = max_retries - 1
               THEN /\ task' = [task EXCEPT ![a] =
                          [failed EXCEPT !.pc = "done",
                                         !.result = Put(@, "api_error", outcome.msg)]]
                    /\ UNCHANGED <<since_last_call, last_gap>>
               ELSE NextAttempt(a, failed)

\* call_analysis.py, analyze_transcript from the response on
RespondUnlimited(a, outcome) ==
    LET t == task[a]
        failed == [t EXCEPT !.failures = @ + 1]
        loaded == JsonLoads(outcome.text)
        valid == /\ outcome.kind = "content"
                 /\ loaded.ok
                 /\ loaded.object
                 /\ DOMAIN loaded.value \cap
                      {"issue_classification", "technical_context", "issue_summary"} # {}
        decodeError == outcome.kind = "content" /\ ~loaded.ok
    IN  /\ task' = [task EXCEPT ![a] =
              IF valid
              THEN [t EXCEPT !.pc = "done",
                             !.result = Put(loaded.value, "call_id", CallOf(a))]
              ELSE IF t.attempt < max_retries
              THEN [failed EXCEPT !.pc = "backoff", !.sleep = Backoff(FALSE, t.attempt)]
              ELSE IF decodeError
              THEN [failed EXCEPT !.pc = "done",
                                  !.result = [call_id |-> CallOf(a),
                                              api_error |-> "JSON parsing error",
                                              issue_summary |-> "Analysis failed",
                                              raw_response |-> "text"]]
              ELSE [failed EXCEPT !.pc = "done",
                                  !.result = [call_id |-> CallOf(a),
                                              api_error |-> "Exception (code: unknown)",
                                              issue_classification |-> "API Error",
                                              issue_summary |-> "Analysis failed"]]]
        /\ UNCHANGED <<since_last_call, last_gap>>

Respond(a, outcome) ==
    /\ task[a].pc = "request"
    /\ IF rate_limited THEN RespondLimited(a, outcome) ELSE RespondUnlimited(a, outcome)
    /\ UNCHANGED <<rate_limited, running>>
    /\ UNCHANGED <<storeVars, poolVars, serviceVars, toolVars>>

\* After the sleep that follows a failed attempt: "continue"
BackoffWake(a) ==
    /\ task[a].pc = "backoff"
    /\ task[a].sleep = 0
    /\ IF rate_limited
       THEN NextAttempt(a, task[a])
       ELSE Send(a, [task[a] EXCEPT !.attempt = @ + 1])
    /\ UNCHANGED <<rate_limited, running>>
    /\ UNCHANGED <<storeVars, poolVars, serviceVars, toolVars>>

\* The caller takes the returned dict.
Return(a) ==
    /\ task[a].pc = "done"
    /\ task' = [task EXCEPT ![a] = IdleTask]
    /\ UNCHANGED <<rate_limited, running, since_last_call, last_gap>>
    /\ UNCHANGED <<storeVars, poolVars, serviceVars, toolVars>>

\* One second passes.
ClientTick ==
    /\ \/ rate_limited /\ since_last_call < min_seconds_between_calls
       \/ \E a \in Tasks : task[a].sleep > 0
    /\ since_last_call' =
          IF rate_limited /\ since_last_call < min_seconds_between_calls
          THEN since_last_call + 1 ELSE since_last_call
    /\ task' = [a \in Tasks |->
                  IF task[a].sleep > 0 THEN [task[a] EXCEPT !.sleep = @ - 1] ELSE task[a]]
    /\ UNCHANGED <<rate_limited, running, last_gap>>
    /\ UNCHANGED <<storeVars, poolVars, serviceVars, toolVars>>

\* OpenAIClient.__init__: last_call_time = 0, so the first call is never delayed.
InitClient ==
    /\ rate_limited \in BOOLEAN
    /\ running \in (SUBSET Tasks) \ {{}}
    /\ task = [a \in Tasks |-> IdleTask]
    /\ since_last_call = min_seconds_between_calls
    /\ last_gap = min_seconds_between_calls
    /\ StoreOff
    /\ PoolOff
    /\ ServiceOff
    /\ ToolsOff

NextClient ==
    \/ \E a \in Tasks : AnalyzeTranscript(a)
    \/ \E a \in Tasks : RateLimit(a)
    \/ \E a \in Tasks : RateLimitWake(a)
    \/ \E a \in Tasks, outcome \in Outcomes : Respond(a, outcome)
    \/ \E a \in Tasks : BackoffWake(a)
    \/ \E a \in Tasks : Return(a)
    \/ ClientTick

SpecClient == InitClient /\ [][NextClient]_vars

\* C6: with a single task on the rate-limited client, every request, retries
\* included, leaves at least min_seconds_between_calls after the one before it.
C6_SingleTaskSpacing ==
    (rate_limited /\ Cardinality(running) = 1) => last_gap >= min_seconds_between_calls

\* A single task has sent a retry.
C6_Witness ==
    /\ rate_limited
    /\ Cardinality(running) = 1
    /\ \E a \in running : task[a].pc = "request" /\ task[a].requests >= 2

\* C7 as stated: with several tasks on the rate-limited client, no two requests
\* leave less than min_seconds_between_calls apart.
C7_SharedClientSpacing ==
    rate_limited => last_gap >= min_seconds_between_calls

\* C8 as stated: analyze_transcript returns a dict that carries the call_id it was
\* called with, in both implementations.
C8_ResultCarriesCallId ==
    \A a \in Tasks :
        task[a].pc = "done" =>
            HasKey(task[a].result, "call_id") /\ task[a].result.call_id = CallOf(a)

\* C9 as stated: when every attempt of a call failed, exactly max_retries + 1
\* requests were made and the result has a non-empty api_error, in both
\* implementations.
C9_AttemptsWhenAllFail ==
    \A a \in Tasks :
        (task[a].pc = "done" /\ task[a].failures = task[a].requests) =>
            /\ task[a].requests = max_retries + 1
            /\ HasKey(task[a].result, "api_error")
            /\ task[a].result.api_error # ""

----------------------------------------------------------------------------
(* Properties of the persistence layer, checked under SpecStore *)

\* C1: after any sequence of saves through DatabaseManager.save_analysis_result,
\* AnalysisResultDAO.save and BaseDAO.insert_or_update, analysis_results holds at
\* most one row per call_id: a save for an existing call_id never appends a row.
C1_OneRowPerCallId ==
    \A i, j \in 1..Len(analysis_results) :
        analysis_results[i].call_id = analysis_results[j].call_id => i = j

\* A save that found the row of its call_id and succeeded, next to another call's row.
C1_Witness ==
    /\ op.name = "save_analysis_result"
    /\ op.existed
    /\ op.ok
    /\ Len(analysis_results) = 2

\* C2 as stated: an upsert of r over an existing row leaves one row for the key in
\* which every non-key column holds the value r brings (the column's default when r
\* brings none) and none keeps the value of the earlier write.
C2_LastWriterWins ==
    [][\A r \in ResultDicts :
         (SaveAnalysisResult(r) /\ op'.ok /\ op'.existed) =>
            /\ Cardinality(RowsWith(analysis_results', r.call_id)) = 1
            /\ \A c \in ManagerColumns \ {"call_id"} :
                  RowOf(analysis_results', r.call_id)[c] = Get(r, c, NULL)]_vars

\* C10, amended: the selected work is exactly the valid transcriptions (a string that
\* is not blank and does not start with "ERROR:") that, in default mode, have no
\* analysis row or whose first analysis row has a status other than 'completed'; in
\* reanalyze mode it is every valid transcription.
C10_WorkSelection ==
    LET valid(t) == IsStr(t) /\ t # NullText /\ Strip(t) # <<>> /\ ~StartsWithError(t)
        todo(results, id) ==
            \/ op.reanalyze
            \/ RowsWith(results, id) = {}
            \/ results[CHOOSE i \in RowsWith(results, id) :
                          \A h \in RowsWith(results, id) : i <= h].analysis_status
                  # "completed"
        ids == {selected[k].call_id : k \in 1..Len(selected)}
    IN  /\ op.name = "get_transcriptions_for_analysis" =>
              LET want == {i \in 1..Len(transcriptions) :
                             /\ valid(transcriptions[i].transcription)
                             /\ todo(analysis_results, transcriptions[i].call_id)}
              IN  /\ ids = {transcriptions[i].call_id : i \in want}
                  /\ Len(selected) = Cardinality(want)
        /\ op.name = "filter_transcriptions" =>
              LET want == {i \in 1..Len(transcriptions_df) :
                             /\ valid(transcriptions_df[i].transcription)
                             /\ todo(analysis_df, transcriptions_df[i].file_name)}
              IN  /\ ids = {transcriptions_df[i].file_name : i \in want}
                  /\ Len(selected) = Cardinality(want)

\* A default run over two stored calls that skips the completed one and selects the
\* other.
C10_Witness ==
    /\ op.name = "get_transcriptions_for_analysis"
    /\ ~op.reanalyze
    /\ Len(transcriptions) = 2
    /\ Len(selected) = 1
    /\ \E i \in 1..Len(analysis_results) :
          /\ analysis_results[i].analysis_status = "completed"
          /\ analysis_results[i].call_id # selected[1].call_id

\* C10 as stated: the selected work is exactly the non-empty transcriptions (here:
\* strings with something other than white space) with no analysis row or a status
\* other than 'completed', and every non-empty transcription in reanalyze mode.
C10_AsStated ==
    LET nonEmpty(t) == IsStr(t) /\ t # NullText /\ Strip(t) # <<>>
        todo(results, id) ==
            \/ op.reanalyze
            \/ RowsWith(results, id) = {}
            \/ results[CHOOSE i \in RowsWith(results, id) :
                          \A h \in RowsWith(results, id) : i <= h].analysis_status
                  # "completed"
        ids == {selected[k].call_id : k \in 1..Len(selected)}
    IN  /\ op.name = "get_transcriptions_for_analysis" =>
              ids = {transcriptions[i].call_id :
                       i \in {i \in 1..Len(transcriptions) :
                                /\ nonEmpty(transcriptions[i].transcription)
                                /\ todo(analysis_results, transcriptions[i].call_id)}}
        /\ op.name = "filter_transcriptions" =>
              ids = {transcriptions_df[i].file_name :
                       i \in {i \in 1..Len(transcriptions_df) :
                                /\ nonEmpty(transcriptions_df[i].transcription)
                                /\ todo(analysis_df, transcriptions_df[i].file_name)}}

----------------------------------------------------------------------------
(* call_analysis.py: ResultFormatter._calculate_confidence_score *)

\* A JSON string is the tuple of its words; a JSON value that is no string is a
\* tuple that starts with a mark: null (falsy in Python) or a list (truthy).
JNull == <<"#null">>
JList == <<"#list", "Step">>
X == <<"x">>
NotMentioned == <<"Not", "Mentioned">>
StepText == <<"First", "Steps">>
\* A JSON value that should be an object and is a string.
NotADict == [is_str |-> X]

SummaryBonusWords == 50
WordsOf(n) == [i \in 1..n |-> "w"]

IsText(v) == v = <<>> \/ Head(v) \notin {"#null", "#list"}
IsDict(v) == "is_str" \notin DOMAIN v
\* bool(v)
Truthy(v) == v # <<>> /\ v # JNull

\* str.lower() on one word, and on a string.
LowerWord(w) ==
    CASE w = "Not" -> "not"
      [] w = "Mentioned" -> "mentioned"
      [] w = "First" -> "first"
      [] w = "Steps" -> "steps"
      [] OTHER -> w
Lower(t) == [i \in 1..Len(t) |-> LowerWord(t[i])]
\* "step" in t, for a lowered string t
ContainsStep(t) == \E i \in 1..Len(t) : t[i] \in {"step", "steps"}
\* len(t.split())
WordCount(t) == Len(t)

\* The (sub-dict, field) pairs of key_indicators; issue_summary is the tenth.
KeyIndicatorPaths ==
    {<<"issue_classification", "primary_category">>,
     <<"issue_classification", "specific_issue">>,
     <<"issue_classification", "severity">>,
     <<"technical_context", "system_portal">>,
     <<"technical_context", "feature_involved">>,
     <<"issue_recreation", "action_sequence">>,
     <<"issue_recreation", "failure_point">>,
     <<"issue_recreation", "expected_vs_actual">>,
     <<"key_quotes", "issue_description">>}
KeyIndicatorCount == Cardinality(KeyIndicatorPaths) + 1

\* result.get(k, {}) and result.get(k, {}).get(f, "")
EmptyDict == [k \in {} |-> <<>>]
SubDict(result, k) == Get(result, k, EmptyDict)
Field(result, k, f) == Get(SubDict(result, k), f, <<>>)

\* The inputs on which a statement inside the try block raises: .get on a value
\* that is no dict, .lower() or .split() on a value that is no string.
ScoreRaises(result) ==
    \/ \E k \in {"issue_classification", "technical_context", "issue_recreation",
                 "key_quotes"} : ~IsDict(SubDict(result, k))
    \/ \E p \in KeyIndicatorPaths :
         Truthy(Field(result, p[1], p[2])) /\ ~IsText(Field(result, p[1], p[2]))
    \/ ~IsText(Get(result, "issue_summary", <<>>))
    \/ ~IsText(Field(result, "issue_recreation", "action_sequence"))

IsFilled(v) == Truthy(v) /\ Lower(v) # <<"not", "mentioned">>

FilledFields(result) ==
    Cardinality({p \in KeyIndicatorPaths : IsFilled(Field(result, p[1], p[2]))})
    + (IF IsFilled(Get(result, "issue_summary", <<>>)) THEN 1 ELSE 0)

SummaryBonus(result) ==
    IF WordCount(Get(result, "issue_summary", <<>>)) > SummaryBonusWords THEN 5 ELSE 0
StepBonus(result) ==
    IF ContainsStep(Lower(Field(result, "issue_recreation", "action_sequence")))
    THEN 5 ELSE 0
NoBonus(result) == 0

QuotesBonus(result) ==
    IF /\ Truthy(Field(result, "key_quotes", "issue_description"))
       /\ Truthy(Field(result, "key_quotes", "impact_statement"))
    THEN 5 ELSE 0

Min(a, b) == IF a <= b THEN a ELSE b

CalculateConfidenceScore(result) ==
    IF ScoreRaises(result)
    THEN 0
    ELSE Min(100, (FilledFields(result) * 100) \div KeyIndicatorCount
                  + SummaryBonus(result) + StepBonus(result) + QuotesBonus(result))

\* The parsed replies the function is applied to: objects whose members are absent,
\* strings, or JSON values of another type.
ClassificationDicts ==
    Dicts({"primary_category", "specific_issue", "severity"},
          [primary_category |-> {X, NotMentioned}, specific_issue |-> {X},
           severity |-> {X}])
TechnicalDicts ==
    Dicts({"system_portal", "feature_involved"},
          [system_portal |-> {X}, feature_involved |-> {X}])
RecreationDicts ==
    Dicts({"action_sequence", "failure_point", "expected_vs_actual"},
          [action_sequence |-> {X, StepText, JList, JNull}, failure_point |-> {X},
           expected_vs_actual |-> {X}])
QuoteDicts ==
    Dicts({"issue_description", "impact_statement"},
          [issue_description |-> {X, NotMentioned},
           impact_statement |-> {X, NotMentioned}])
Summaries ==
    {<<>>, X, WordsOf(SummaryBonusWords), WordsOf(SummaryBonusWords + 1), JNull}

\* A member that the reply lacks.
AbsentDict == [is_absent |-> X]
AbsentText == <<"#absent">>

ParsedReply(c, t, r, q, s) ==
    LET full == [issue_classification |-> c, technical_context |-> t,
                 issue_recreation |-> r, key_quotes |-> q, issue_summary |-> s]
        present == {k \in {"issue_classification", "technical_context",
                           "issue_recreation", "key_quotes"} : full[k] # AbsentDict}
                   \cup (IF s = AbsentText THEN {} ELSE {"issue_summary"})
    IN  [k \in present |-> full[k]]

ScoreResults ==
    {ParsedReply(c, t, r, q, s) :
       c \in ClassificationDicts \cup {NotADict, AbsentDict},
       t \in TechnicalDicts, r \in RecreationDicts \cup {AbsentDict},
       q \in QuoteDicts, s \in Summaries \cup {AbsentText}}

CalculateConfidenceScoreCall ==
    /\ scoring.pc = "call"
    /\ scoring' = [scoring EXCEPT !.pc = "returned",
                                  !.score = CalculateConfidenceScore(scoring.result)]
    /\ UNCHANGED <<storeVars, poolVars, clientVars>>
    /\ UNCHANGED <<exit_requested, service, stats, analysis_stats, analysis_csv, sent>>
    /\ UNCHANGED toolVars

InitScore ==
    /\ StoreOff
    /\ PoolOff
    /\ ClientOff
    /\ exit_requested = FALSE
    /\ service = IdleService
    /\ stats = NewStats
    /\ analysis_stats = <<>>
    /\ analysis_csv = <<>>
    /\ sent = <<>>
    /\ \E r \in ScoreResults : scoring = [pc |-> "call", result |-> r, score |-> 0]
    /\ ToolsOff

NextScore == CalculateConfidenceScoreCall

SpecScore == InitScore /\ [][NextScore]_vars

----------------------------------------------------------------------------
(* Properties of _calculate_confidence_score, checked under SpecScore *)

\* The quantities the statement names, read off the parsed reply.
C20_Indicators(r) ==
    <<Field(r, "issue_classification", "primary_category"),
      Field(r, "issue_classification", "specific_issue"),
      Field(r, "issue_classification", "severity"),
      Field(r, "technical_context", "system_portal"),
      Field(r, "technical_context", "feature_involved"),
      Field(r, "issue_recreation", "action_sequence"),
      Field(r, "issue_recreation", "failure_point"),
      Field(r, "issue_recreation", "expected_vs_actual"),
      Field(r, "key_quotes", "issue_description"),
      Get(r, "issue_summary", <<>>)>>

C20_Filled(r) ==
    Cardinality({i \in 1..10 :
                   /\ C20_Indicators(r)[i] \notin {<<>>, JNull}
                   /\ Lower(C20_Indicators(r)[i]) # <<"not", "mentioned">>})

C20_Bonuses(r) ==
    (IF Len(Get(r, "issue_summary", <<>>)) > 50 THEN 1 ELSE 0)
    + (IF \E i \in 1..Len(Field(r, "issue_recreation", "action_sequence")) :
            Field(r, "issue_recreation", "action_sequence")[i]
              \in {"step", "steps", "Step", "Steps"}
       THEN 1 ELSE 0)
    + (IF /\ Field(r, "key_quotes", "issue_description") \notin {<<>>, JNull}
          /\ Field(r, "key_quotes", "impact_statement") \notin {<<>>, JNull}
       THEN 1 ELSE 0)

C20_Formula(r) == Min(100, (100 * C20_Filled(r)) \div 10 + 5 * C20_Bonuses(r))

\* C20: the score returned lies in 0..100 for every parsed reply; it is
\* min(100, 100 * filled / 10 + 5 * b) whenever reading the reply raises nothing
\* (the four groups are objects, and issue_summary, action_sequence and every
\* non-empty indicator are strings), and it is 0 whenever reading the reply raises.
C20_Score ==
    scoring.pc = "returned" =>
        /\ scoring.score \in 0..100
        /\ ~ScoreRaises(scoring.result) => scoring.score = C20_Formula(scoring.result)
        /\ ScoreRaises(scoring.result) => scoring.score = 0

\* A reply with all ten indicators filled and all three bonuses: 115 is capped.
C20_Witness ==
    /\ scoring.pc = "returned"
    /\ ~ScoreRaises(scoring.result)
    /\ C20_Filled(scoring.result) = 10
    /\ C20_Bonuses(scoring.result) = 3
    /\ scoring.score = 100

\* C20 as stated: the score is min(100, 100 * filled / 10 + 5 * b) for every input.
C20_AsStated ==
    scoring.pc = "returned" => scoring.score = C20_Formula(scoring.result)

\* C21: the score returned is 0 for every parsed reply in which each of the ten
\* key indicators is empty or "not mentioned" (in any case of letters), whatever
\* the other members of the reply hold.
C21_ZeroWhenNothingMentioned ==
    (scoring.pc = "returned" /\ C20_Filled(scoring.result) = 0) => scoring.score = 0

----------------------------------------------------------------------------
(* call_analysis.py: ResultFormatter.format_analysis_result *)

\* The members of the reply that the formatter reads with .get(k, {}).get(...).
FormatterGroups ==
    {"issue_classification", "caller_information", "technical_context",
     "issue_recreation", "resolution_path", "key_quotes"}

\* asdict(formatted_result), for the fields of AnalysisResult that the model keeps.
AsDict(call_id, analysis_status, api_error, confidence_score, processing_time_ms) ==
    [call_id |-> call_id, analysis_status |-> analysis_status, api_error |-> api_error,
     confidence_score |-> confidence_score, processing_time_ms |-> processing_time_ms]

\* {k: v for k, v in d.items() if v}: "" and 0.0 are falsy.
DropFalsy(d) ==
    [k \in {x \in DOMAIN d :
              IF x \in {"confidence_score", "processing_time_ms"}
              THEN d[x] # 0 ELSE d[x] # ""} |-> d[k]]

NeverRaises(result) == FALSE

\* The replies on which the try block raises: .get on a member that is no dict.
FormatterRaises(result) == \E k \in FormatterGroups : ~IsDict(SubDict(result, k))

FormatAnalysisResult(result, file_name) ==
    LET has_valid_analysis ==
            HasKey(result, "issue_classification") \/ HasKey(result, "issue_summary")
        status == IF HasKey(result, "api_error")
                  THEN (IF has_valid_analysis THEN "partial" ELSE "failed")
                  ELSE "completed"
        api_error == Get(result, "api_error", "")
    IN  IF HasKey(result, "api_error") /\ ~has_valid_analysis
        THEN AsDict(file_name, "failed", api_error, 0, 0)
        ELSE IF ~HasKey(result, "api_error") /\ HasKey(result, "error")
        THEN AsDict(file_name, "failed", result.error, 0, 0)
        ELSE IF FormatterRaises(result)
        THEN [call_id |-> file_name, analysis_status |-> "failed",
              error |-> "Error formatting result"]
        ELSE LET d == DropFalsy(AsDict(file_name, status, api_error,
                                       CalculateConfidenceScore(result),
                                       Get(result, "processing_time", 0)))
             IN  IF HasKey(result, "note") THEN Put(d, "note", result.note) ELSE d

----------------------------------------------------------------------------
(* analyze_with_db.py: DbCallAnalysisService and DbDataManager *)

MaxBatchSize == 2

\* What call_analysis.OpenAIClient.analyze_transcript returns, with the time the
\* call took in ms: a reply with every indicator filled; a reply that mentions
\* nothing; a reply whose issue_classification is a string; the result after the
\* last retry of a failing request; the result after the last malformed reply.
FullReply ==
    [issue_classification |-> [primary_category |-> X, specific_issue |-> X,
                               severity |-> X],
     technical_context |-> [system_portal |-> X, feature_involved |-> X],
     issue_recreation |-> [action_sequence |-> X, failure_point |-> X,
                           expected_vs_actual |-> X],
     key_quotes |-> [issue_description |-> X],
     issue_summary |-> X]
HollowReply == [issue_classification |-> [primary_category |-> NotMentioned]]
MalformedReply == [issue_classification |-> NotADict]
ApiFailure ==
    [api_error |-> "err",
     issue_classification |-> [primary_category |-> X, specific_issue |-> X,
                               issue_status |-> X, severity |-> X],
     issue_summary |-> X]
JsonFailure == [api_error |-> "err", issue_summary |-> X, raw_response |-> X]

\* response.usage of the response that the result was parsed from; no response
\* came back when every request failed.
Usage(prompt_tokens, completion_tokens) ==
    [prompt_tokens |-> prompt_tokens, completion_tokens |-> completion_tokens,
     total_tokens |-> prompt_tokens + completion_tokens]
NoUsage == Usage(0, 0)

\* cost_inr, in units of 0.00005 * 83.5 / 1000 rupees: a completion token costs
\* three times a prompt token.
CostInr(usage) == usage.prompt_tokens + 3 * usage.completion_tokens

ClientReturns ==
    {[result |-> FullReply, ms |-> 1, usage |-> Usage(1, 1)],
     [result |-> HollowReply, ms |-> 1, usage |-> Usage(1, 1)],
     [result |-> MalformedReply, ms |-> 3, usage |-> Usage(1, 1)],
     [result |-> ApiFailure, ms |-> 3, usage |-> NoUsage]}

\* The same with the result after the last response that was no JSON.
AllClientReturns ==
    ClientReturns \cup {[result |-> JsonFailure, ms |-> 3, usage |-> Usage(1, 1)]}

\* The texts a transcriptions row of the database file can hold: NULL, '', an
\* error marker, a transcript.
ServiceTexts == {NullText, <<>>, <<"ERROR:", "a">>, <<"a">>}

WholeRest(i, batch_size, n) == n

\* transcriptions_to_analyze[i:i + self.batch_size]: the index of its last item
BatchEnd(i, batch_size, n) == Min(i + batch_size, n)

AnyItem(item) == TRUE

\* prepare_batch_prompts: the items that get a prompt.
ValidItem(item) ==
    /\ HasKey(item, "transcription")
    /\ item.transcription # NullText
    /\ item.transcription # <<>>
    /\ IsStr(item.transcription)
    /\ ~StartsWithError(item.transcription)

PrepareBatchPrompts(batch) == SelectSeq(batch, ValidItem)

\* new_avg = (old_avg * (n - 1) + value) / n
RunningAverage(old_avg, n, value) ==
    Frac(old_avg.num * (n - 1) + value * old_avg.den, old_avg.den * n)

IsNotFailed(formatted_result) ==
    Get(formatted_result, "analysis_status", "") # "failed"

\* formatted_result.get('analysis_status') == 'completed'
IsCompleted(formatted_result) ==
    Get(formatted_result, "analysis_status", "") = "completed"

\* analyze_batch: "Update statistics"
UpdateStats(s, formatted_result) ==
    LET n == s.total_processed + 1
        completed == IsCompleted(formatted_result)
    IN  [s EXCEPT
           !.total_processed = n,
           !.successful = IF completed THEN @ + 1 ELSE @,
           !.failed = IF completed THEN @ ELSE @ + 1,
           !.avg_confidence =
               IF HasKey(formatted_result, "confidence_score")
               THEN RunningAverage(@, n, formatted_result.confidence_score) ELSE @,
           !.avg_processing_time =
               IF HasKey(formatted_result, "processing_time_ms")
               THEN RunningAverage(@, n, formatted_result.processing_time_ms) ELSE @]

\* import_analysis_results_from_csv: every column of the file but id is written.
RECURSIVE ImportAnalysisResults(_, _, _)
ImportAnalysisResults(rows, table, parents) ==
    IF rows = <<>> THEN table
    ELSE LET row == Head(rows)
             r == SqlUpsert(table, ManagerColumns, row, DOMAIN row, ManagerNotNull,
                            parents)
         IN  ImportAnalysisResults(Tail(rows),
                                   IF row.call_id = NULL THEN table ELSE r.table,
                                   parents)

\* DbDataManager.save_analysis_results: the loop over the items.  An item whose
\* index is in `failing` meets a database error inside save_analysis_result, which
\* logs it and returns False.
RECURSIVE SaveLoop(_, _, _, _, _)
SaveLoop(items, k, failing, table, parents) ==
    IF k > Len(items)
    THEN [table |-> table, handed |-> <<>>, returns |-> <<>>, success_count |-> 0,
          errors |-> 0]
    ELSE LET r == IF k \in failing \/ Get(items[k], "call_id", "") = ""
                  THEN [ok |-> FALSE, table |-> table]
                  ELSE SaveAnalysisResultStmt(table, parents, items[k])
             rest == SaveLoop(items, k + 1, failing, r.table, parents)
         IN  [table |-> rest.table,
              handed |-> <<items[k].call_id>> \o rest.handed,
              returns |-> <<r.ok>> \o rest.returns,
              success_count |-> rest.success_count + (IF r.ok THEN 1 ELSE 0),
              errors |-> rest.errors + (IF r.ok THEN 0 ELSE 1)]

ParentIds == {transcriptions[i].call_id : i \in 1..Len(transcriptions)}

\* process_transcriptions up to the loop: load_transcriptions finds no file at
\* transcriptions_path, load_analysis_results imports the file at analysis_path,
\* and the work is selected.  With no work the method returns at once.
ProcessTranscriptions(reanalyze) ==
    /\ service.pc = "ready"
    /\ LET loaded == ImportAnalysisResults(analysis_csv, analysis_results, ParentIds)
           work == GetTranscriptionsForAnalysis(transcriptions, loaded, 0, reanalyze)
       IN  /\ analysis_results' = loaded
           /\ service' = [service EXCEPT
                            !.pc = IF work = <<>> THEN "done" ELSE "loop",
                            !.reanalyze = reanalyze, !.work = work, !.i = 0]
    /\ UNCHANGED <<store, transcriptions, call_transcriptions, dao_save,
                   transcriptions_df, analysis_df, selected, op>>
    /\ UNCHANGED <<exit_requested, stats, analysis_stats, analysis_csv, sent, scoring>>
    /\ UNCHANGED toolVars
    /\ UNCHANGED <<poolVars, clientVars>>

\* GracefulExit._signal_handler: SIGINT or SIGTERM arrives.
SignalHandler ==
    /\ service.pc \in {"ready", "loop", "analyze", "save", "stats"}
    /\ ~exit_requested
    /\ exit_requested' = TRUE
    /\ UNCHANGED <<storeVars, poolVars, clientVars>>
    /\ UNCHANGED <<service, stats, analysis_stats, analysis_csv, sent, scoring>>
    /\ UNCHANGED toolVars

\* The head of the for loop: the range is exhausted, or should_exit() breaks the
\* loop, or the next batch is cut and its prompts prepared (analyze_batch returns
\* [] at once when no item of the batch is valid, and nothing is saved).
NeverExit == FALSE

\* GracefulExit.should_exit()
ShouldExit == exit_requested

NextBatch ==
    /\ service.pc = "loop"
    /\ IF service.i >= Len(service.work) \/ ShouldExit
       THEN service' = [service EXCEPT !.pc = "stats"]
       ELSE LET last == BatchEnd(service.i, service.batch_size, Len(service.work))
                batch == SubSeq(service.work, service.i + 1, last)
                valid_items == PrepareBatchPrompts(batch)
            IN  IF valid_items = <<>>
                THEN service' = [service EXCEPT !.i = @ + service.batch_size,
                                                !.batches = @ + 1]
                ELSE service' = [service EXCEPT !.pc = "analyze",
                                                !.valid_items = valid_items,
                                                !.client_results = <<>>,
                                                !.results = <<>>,
                                                !.batches = @ + 1]
    /\ UNCHANGED <<storeVars, poolVars, clientVars>>
    /\ UNCHANGED <<exit_requested, stats, analysis_stats, analysis_csv, sent, scoring>>
    /\ UNCHANGED toolVars

\* The loop of analyze_batch ends when every valid item has a result.
BatchDoneOnError(results, valid_items) ==
    Len(results) = Len(valid_items) \/ HasKey(results[Len(results)], "api_error")

BatchDone(results, valid_items) == Len(results) = Len(valid_items)

\* One turn of the loop of analyze_batch: the client is awaited for the next valid
\* item, and its result is timed, formatted, counted and appended.
AnalyzeItem(returned) ==
    /\ service.pc = "analyze"
    /\ LET item == service.valid_items[Len(service.results) + 1]
           result == Put(returned.result, "processing_time", returned.ms)
           formatted_result == FormatAnalysisResult(result, item.call_id)
           results == Append(service.results, formatted_result)
       IN  /\ sent' = Append(sent, item.call_id)
           /\ stats' = UpdateStats(stats, formatted_result)
           /\ service' = [service EXCEPT
                            !.client_results = Append(@, returned.result),
                            !.results = results,
                            !.pc = IF BatchDone(results, service.valid_items)
                                   THEN "save" ELSE "analyze",
                            !.sum_confidence =
                                @ + Get(formatted_result, "confidence_score", 0),
                            !.sum_processing_time = @ + returned.ms,
                            !.tokens_reported = @ + returned.usage.total_tokens,
                            !.cost_reported = @ + CostInr(returned.usage)]
    /\ UNCHANGED <<storeVars, poolVars, clientVars>>
    /\ UNCHANGED <<exit_requested, analysis_stats, analysis_csv, scoring>>
    /\ UNCHANGED toolVars

\* DbDataManager.save_analysis_results(batch_results), then the loop moves on.
SaveAnalysisResults(failing) ==
    /\ service.pc = "save"
    /\ failing \subseteq 1..Len(service.results)
    /\ LET r == SaveLoop(service.results, 1, failing, analysis_results, ParentIds)
       IN  /\ analysis_results' = r.table
           /\ analysis_csv' = r.table
           /\ service' = [service EXCEPT !.pc = "loop",
                                         !.i = @ + service.batch_size,
                                         !.handed = r.handed,
                                         !.save_returns = r.returns,
                                         !.errors = @ + r.errors,
                                         !.saved = @ + 1]
    /\ UNCHANGED <<store, transcriptions, call_transcriptions, dao_save,
                   transcriptions_df, analysis_df, selected, op>>
    /\ UNCHANGED <<exit_requested, stats, analysis_stats, sent, scoring>>
    /\ UNCHANGED toolVars
    /\ UNCHANGED <<poolVars, clientVars>>

\* db_manager.save_stats(self.stats) after the loop; a database error is logged
\* and save_stats returns False.
SaveStats(fails) ==
    /\ service.pc = "stats"
    /\ analysis_stats' = IF fails THEN analysis_stats ELSE Append(analysis_stats, stats)
    /\ service' = [service EXCEPT !.pc = "done",
                                  !.errors = IF fails THEN @ + 1 ELSE @]
    /\ UNCHANGED <<storeVars, poolVars, clientVars>>
    /\ UNCHANGED <<exit_requested, stats, analysis_csv, sent, scoring>>
    /\ UNCHANGED toolVars

\* The database file as a run finds it: two transcriptions rows of one import, the
\* analysis rows that earlier runs left (a completed one, a partial one with its
\* api_error) together with their export, and the analysis_stats row of an
\* earlier run.
TranscriptionRow(id, text) ==
    [call_id |-> id, duration_seconds |-> 0, transcription |-> text,
     hash_value |-> Md5(text), import_timestamp |-> 0]
EarlierRows(id) ==
    {<<>>, <<[call_id |-> id, analysis_status |-> "completed", api_error |-> NULL]>>,
     <<[call_id |-> id, analysis_status |-> "partial", api_error |-> "err"]>>}
EarlierStats == [NewStats EXCEPT !.total_processed = 1, !.failed = 1]

InitService ==
    /\ store = "database_manager"
    /\ \E t1 \in ServiceTexts, t2 \in ServiceTexts :
         transcriptions = <<TranscriptionRow("c1", t1), TranscriptionRow("c2", t2)>>
    /\ \E a1 \in EarlierRows("c1"), a2 \in EarlierRows("c2") :
         /\ analysis_results = a1 \o a2
         /\ analysis_csv = a1 \o a2
    /\ call_transcriptions = <<>>
    /\ dao_save = <<>>
    /\ transcriptions_df = <<>>
    /\ analysis_df = <<>>
    /\ selected = <<>>
    /\ op = [name |-> "init"]
    /\ PoolOff
    /\ ClientOff
    /\ exit_requested = FALSE
    /\ analysis_stats \in {<<>>, <<EarlierStats>>}
    /\ \E b \in 1..MaxBatchSize :
         service = [IdleService EXCEPT !.pc = "ready", !.batch_size = b,
                                       !.stats_rows = Len(analysis_stats)]
    /\ stats = NewStats
    /\ sent = <<>>
    /\ scoring = NoScoring
    /\ ToolsOff

NextService ==
    \/ \E reanalyze \in BOOLEAN : ProcessTranscriptions(reanalyze)
    \/ SignalHandler
    \/ NextBatch
    \/ \E returned \in ClientReturns : AnalyzeItem(returned)
    \/ \E failing \in SUBSET (1..MaxBatchSize) : SaveAnalysisResults(failing)
    \/ \E fails \in BOOLEAN : SaveStats(fails)

SpecService == InitService /\ [][NextService]_vars

\* The coroutine runs on: the event loop resumes it after every await, the client
\* returns after at most max_retries + 1 requests, and the synchronous code
\* between two awaits runs to its end.  At most one of these steps is enabled at
\* a time.  The runs start on a database file without earlier analysis rows.
RunStep ==
    \/ NextBatch
    \/ \E returned \in ClientReturns : AnalyzeItem(returned)
    \/ \E failing \in SUBSET (1..MaxBatchSize) : SaveAnalysisResults(failing)
    \/ \E fails \in BOOLEAN : SaveStats(fails)

InitServiceFair == InitService /\ analysis_results = <<>> /\ analysis_stats = <<>>

SpecServiceFair == InitServiceFair /\ [][NextService]_vars /\ WF_vars(RunStep)

----------------------------------------------------------------------------
(* Properties of DbCallAnalysisService, checked under SpecService *)

\* C11: when a batch is saved and the row of a call goes from 'failed' or 'partial'
\* with a non-empty api_error to 'completed', the row holds no api_error any more.
C11_ReanalysisReplacesRow ==
    [][\A id \in CallIds :
         (/\ service.pc = "save"
          /\ service'.pc = "loop"
          /\ RowsWith(analysis_results, id) # {}
          /\ RowOf(analysis_results, id).analysis_status \in {"failed", "partial"}
          /\ RowOf(analysis_results, id).api_error \notin {NULL, ""}
          /\ RowOf(analysis_results', id).analysis_status = "completed")
         => RowOf(analysis_results', id).api_error \in {NULL, ""}]_vars

CallIdsOf(items) == [k \in 1..Len(items) |-> items[k].call_id]

\* C12: cancellation is cooperative and batch-granular.  The exit flag is never
\* reset; while it is set no batch is started; a batch that has started goes on
\* to its analysis and its save whatever the flag is; and a batch in analysis when
\* the flag is set is analysed to its last valid item and handed to the store
\* whole, after which the run ends.
C12_BatchGranularCancellation ==
    /\ [][/\ exit_requested => exit_requested'
          /\ exit_requested /\ service.pc = "loop" =>
                service'.batches = service.batches /\ service'.pc \in {"loop", "stats"}
          /\ service.pc = "analyze" => service'.pc \in {"analyze", "save"}
          /\ service.pc = "save" => service'.pc \in {"save", "loop"}]_vars
    /\ \A b \in 1..MaxBatchSize :
         (exit_requested /\ service.pc = "analyze" /\ service.batches = b)
           ~> (/\ service.pc = "loop"
               /\ service.batches = b
               /\ service.handed = CallIdsOf(service.valid_items)
               /\ Len(service.results) = Len(service.valid_items))
    /\ (exit_requested /\ service.pc # "ready") ~> (service.pc = "done")

\* The signal arrives when the first of the two valid items of a batch has been
\* analysed.
C12_Witness ==
    /\ exit_requested
    /\ service.pc = "analyze"
    /\ Len(service.results) = 1
    /\ Len(service.valid_items) = 2

\* C13: a result with an api_error does not end the loop of analyze_batch: when the
\* loop is over every valid item of the batch has been sent to the client and has
\* its result, in order, and when the batch has been saved every one of these
\* results, the failed ones included, has been handed to save_analysis_result.
C13_FailedItemKeepsBatch ==
    /\ service.pc = "save" =>
          /\ CallIdsOf(service.results) = CallIdsOf(service.valid_items)
          /\ \A k \in 1..Len(service.valid_items) :
               \E j \in 1..Len(sent) : sent[j] = service.valid_items[k].call_id
    /\ service.pc = "loop" /\ service.saved > 0 =>
          /\ service.handed = CallIdsOf(service.valid_items)
          /\ service.handed = CallIdsOf(service.results)

\* The first item of a batch of two got a result with an api_error, the second a
\* completed one, and both rows are stored.
C13_Witness ==
    /\ service.pc = "loop"
    /\ service.saved = 1
    /\ Len(service.results) = 2
    /\ HasKey(service.results[1], "api_error")
    /\ service.results[2].analysis_status = "completed"
    /\ service.handed = <<"c1", "c2">>
    /\ RowsWith(analysis_results, "c1") # {}
    /\ RowOf(analysis_results, "c1").analysis_status = "partial"
    /\ RowsWith(analysis_results, "c2") # {}
    /\ RowOf(analysis_results, "c2").analysis_status = "completed"

\* C14: a save that fails ends the merge of its batch: no item after the first one
\* whose save_analysis_result returned False is merged.
C14_StoreFailureEndsBatch ==
    service.pc = "loop" /\ service.saved > 0 =>
        \A k \in 1..Len(service.save_returns) :
            \A j \in (k + 1)..Len(service.save_returns) :
                ~service.save_returns[k] => ~service.save_returns[j]

\* C15: a run leaves the earlier rows of analysis_stats as they were, writes no row
\* before its loop is over, and, when the database raises no error, has appended
\* exactly one row by the time it ends, whether it completed, was cancelled or
\* found no work.
C15_OneStatsRowPerRun ==
    /\ \A k \in 1..service.stats_rows :
         k <= Len(analysis_stats) /\ analysis_stats[k] = EarlierStats
    /\ service.pc # "done" => Len(analysis_stats) = service.stats_rows
    /\ service.pc = "done" /\ service.errors = 0 =>
          Len(analysis_stats) = service.stats_rows + 1

\* C16: after n items, avg_confidence is the mean of the n confidence scores and
\* avg_processing_time the mean of the n processing times.
C16_RunningAveragesAreMeans ==
    stats.total_processed > 0 =>
        /\ stats.avg_confidence.num * stats.total_processed
             = service.sum_confidence * stats.avg_confidence.den
        /\ stats.avg_processing_time.num * stats.total_processed
             = service.sum_processing_time * stats.avg_processing_time.den

\* A transcript that is missing, empty or an error marker.
C17_Unusable(text) == text \in {NullText, <<>>} \/ Head(text) = "ERROR:"

C17_Ids(ids) == {ids[k] : k \in 1..Len(ids)}

\* C17: a transcription whose text is missing, empty or starts with 'ERROR:' is
\* never sent to the client, never handed to the store and not counted; the items
\* counted are exactly the items sent; every saved result is the stored row of its
\* call; and a run that is neither cancelled nor hit by a database error ends with
\* total_processed equal to the number of usable work items, each with its row.
C17_UnusableItemsSkipped ==
    /\ \A i \in 1..Len(transcriptions) :
         C17_Unusable(transcriptions[i].transcription) =>
            /\ transcriptions[i].call_id \notin C17_Ids(sent)
            /\ transcriptions[i].call_id \notin C17_Ids(service.handed)
            /\ transcriptions[i].call_id \notin C17_Ids(CallIdsOf(service.results))
    /\ stats.total_processed = Len(sent)
    /\ service.pc = "loop" /\ service.saved > 0 =>
         \A k \in 1..Len(service.save_returns) :
            service.save_returns[k] =>
               /\ RowsWith(analysis_results, service.results[k].call_id) # {}
               /\ RowOf(analysis_results, service.results[k].call_id).analysis_status
                    = service.results[k].analysis_status
    /\ service.pc = "done" /\ ~exit_requested /\ service.errors = 0 =>
         /\ stats.total_processed
              = Cardinality({k \in 1..Len(service.work) :
                               ~C17_Unusable(service.work[k].transcription)})
         /\ \A k \in 1..Len(service.work) :
              ~C17_Unusable(service.work[k].transcription) =>
                 RowsWith(analysis_results, service.work[k].call_id) # {}

\* A batch of two whose first item is an error marker: only the second is sent,
\* stored and counted.
C17_Witness ==
    /\ service.pc = "done"
    /\ service.batch_size = 2
    /\ Len(service.work) = 2
    /\ service.work[1].transcription = <<"ERROR:", "a">>
    /\ sent = <<"c2">>
    /\ stats.total_processed = 1
    /\ RowsWith(analysis_results, "c1") = {}
    /\ RowsWith(analysis_results, "c2") # {}

----------------------------------------------------------------------------
(* Properties of import_transcriptions_from_csv, checked under SpecImport *)

\* The row is unusable (and skipped), or its call_id is stored with its hash.
C18_Stored(row, table) ==
    \/ ~IsStr(row.transcription)
    \/ Strip(row.transcription) = <<>>
    \/ StartsWithError(row.transcription)
    \/ \E i \in 1..Len(table) :
         table[i].call_id = row.file_name
         /\ table[i].hash_value = Md5(row.transcription)

\* No call_id comes with two different usable transcripts in the file.
C18_NoRivalRows(csv) ==
    \A i, j \in 1..Len(csv) :
       (/\ csv[i].file_name = csv[j].file_name
        /\ ~C18_Stored(csv[i], <<>>)
        /\ ~C18_Stored(csv[j], <<>>))
       => csv[i].transcription = csv[j].transcription

\* What import_transcriptions_from_csv(csv) returns and leaves on `table`, in the
\* second of the last import or later.
C18_Import(csv, table, later) ==
    LET last == MaxOf({table[i].import_timestamp : i \in 1..Len(table)})
        r == ImportRows(csv, table, 0, IF later THEN last + 1 ELSE last)
    IN  [count |-> r.count, table |-> DenseRanks(r.table)]

\* C18: on every table that imports produce, an import of rows that are all
\* stored with their hash returns 0 and changes no row; and after the import of a
\* file in which no call_id comes with two different transcripts, importing the
\* file again returns 0 and changes no row.
C18_ImportIdempotent ==
    \A csv \in BoundedSeq(CsvRows, MaxReimportRows) : \A later \in BOOLEAN :
       LET first == C18_Import(csv, transcriptions, later)
       IN  /\ (\A k \in 1..Len(csv) : C18_Stored(csv[k], transcriptions)) =>
                 first.count = 0 /\ first.table = transcriptions
           /\ C18_NoRivalRows(csv) =>
                 \A again \in BOOLEAN :
                    /\ C18_Import(csv, first.table, again).count = 0
                    /\ C18_Import(csv, first.table, again).table = first.table

\* An import that counted nothing on a table that holds both calls.
C18_Witness ==
    /\ op.name = "import_transcriptions_from_csv"
    /\ op.count = 0
    /\ Len(transcriptions) = 2

\* C18 as stated: after the import of any file, importing it again returns 0 and
\* changes no row.
C18_AsStated ==
    \A csv \in BoundedSeq(CsvRows, MaxReimportRows) : \A later \in BOOLEAN :
       LET first == C18_Import(csv, transcriptions, later)
       IN  \A again \in BOOLEAN :
              /\ C18_Import(csv, first.table, again).count = 0
              /\ C18_Import(csv, first.table, again).table = first.table

----------------------------------------------------------------------------
(* Saving a result that has no call_id, checked under SpecStore *)

----------------------------------------------------------------------------
(* call_analysis.py: TextProcessor.chunk_text, and the two places that use it *)

\* A transcript is the tuple of its characters: a letter, a sentence end, a blank.
Punctuation == {".", "!", "?"}
Whitespace == {" "}
Chars == {"a", ".", " "}

\* Stand-ins for the default max_length of 8000 and for the longest transcript.
max_length == 3
MaxTranscriptLen == 6

RECURSIVE SkipWhitespace(_, _)
SkipWhitespace(text, i) ==
    IF i <= Len(text) /\ text[i] \in Whitespace THEN SkipWhitespace(text, i + 1) ELSE i

\* re.split(r'(?<=[.!?])\s+', text): a run of whitespace separates two sentences
\* when the character before it ends a sentence.
RECURSIVE ReSplit(_, _, _, _)
ReSplit(text, i, current, sentences) ==
    IF i > Len(text)
    THEN Append(sentences, current)
    ELSE IF text[i] \in Whitespace /\ i > 1 /\ text[i - 1] \in Punctuation
    THEN ReSplit(text, SkipWhitespace(text, i), <<>>, Append(sentences, current))
    ELSE ReSplit(text, i + 1, Append(current, text[i]), sentences)

\* ' '.join(current_chunk)
RECURSIVE Join(_)
Join(parts) ==
    IF parts = <<>> THEN <<>>
    ELSE IF Len(parts) = 1 THEN parts[1]
    ELSE parts[1] \o <<" ">> \o Join(Tail(parts))

\* The for loop of chunk_text and the statement after it.
RECURSIVE ChunkLoop(_, _, _, _, _, _)
ChunkLoop(sentences, k, chunks, current_chunk, current_length, limit) ==
    LET closed == IF current_chunk # <<>>
                  THEN Append(chunks, Join(current_chunk)) ELSE chunks
    IN  IF k > Len(sentences)
        THEN closed
        ELSE IF current_length + Len(sentences[k]) + 1 <= limit
        THEN ChunkLoop(sentences, k + 1, chunks, Append(current_chunk, sentences[k]),
                       current_length + Len(sentences[k]) + 1, limit)
        ELSE ChunkLoop(sentences, k + 1, closed, <<sentences[k]>>, Len(sentences[k]),
                       limit)

ChunkText(text, limit) ==
    IF text = <<>> \/ Len(text) <= limit
    THEN (IF text # <<>> THEN <<text>> ELSE <<>>)
    ELSE ChunkLoop(ReSplit(text, 1, <<>>, <<>>), 1, <<>>, <<>>, 0, limit)

\* The f-strings that tell of a partial transcript: only their two numbers.
PartialNote(chunks, text) == [first |-> Len(chunks[1]), of |-> Len(text)]

\* PromptGenerator.generate_analysis_prompt for one valid item: the part of the
\* transcript that goes into the prompt, and the note in front of it.
GenerateAnalysisPrompt ==
    /\ chunking.pc = "item"
    /\ LET chunks == ChunkText(chunking.transcription, max_length)
       IN  chunking' = [chunking EXCEPT
                          !.pc = "prompted",
                          !.text_to_use = chunks[1],
                          !.partial_note = IF Len(chunks) > 1
                                           THEN <<PartialNote(chunks, chunking.transcription)>>
                                           ELSE <<>>]
    /\ UNCHANGED <<storeVars, poolVars, clientVars, serviceVars, notChunking>>

\* analyze_batch for that item, from the reply of the client to the formatted
\* result: processing_time, the note, format_analysis_result.
AttachNote(returned) ==
    /\ chunking.pc = "prompted"
    /\ LET chunks == ChunkText(chunking.transcription, max_length)
           timed == Put(returned.result, "processing_time", returned.ms)
           result == IF Len(chunks) > 1
                     THEN Put(timed, "note", PartialNote(chunks, chunking.transcription))
                     ELSE timed
       IN  chunking' = [chunking EXCEPT
                          !.pc = "formatted",
                          !.chunks = chunks,
                          !.result = result,
                          !.formatted_result = FormatAnalysisResult(result, "c1")]
    /\ UNCHANGED <<storeVars, poolVars, clientVars, serviceVars, notChunking>>

Transcripts == BoundedSeq(Chars, MaxTranscriptLen) \ {<<>>}

InitChunk ==
    /\ StoreOff
    /\ PoolOff
    /\ ClientOff
    /\ ServiceOff
    /\ \E text \in Transcripts :
         chunking = [pc |-> "item", transcription |-> text, text_to_use |-> <<>>,
                     partial_note |-> <<>>, chunks |-> <<>>,
                     result |-> [issue_summary |-> <<>>],
                     formatted_result |-> [call_id |-> "c1"]]
    /\ CsvRunOff
    /\ ExportOff
    /\ FanoutOff
    /\ ConfigOff
    /\ AuthOff
    /\ SafeWriteOff

NextChunk ==
    \/ GenerateAnalysisPrompt
    \/ \E returned \in ClientReturns : AttachNote(returned)

SpecChunk == InitChunk /\ [][NextChunk]_vars

----------------------------------------------------------------------------
(* Properties of chunk_text and the truncation note, checked under SpecChunk *)

C22_Long(text) ==
    /\ Len(text) > max_length
    /\ \E i \in 1..Len(text) : text[i] \in Punctuation

\* C22: for a transcript longer than max_length that holds a sentence end,
\* chunk_text returns more than one chunk, the part sent for analysis is at most
\* max_length characters long, and the result of the item carries the note.
C22_LongTranscriptTruncated ==
    (chunking.pc = "formatted" /\ C22_Long(chunking.transcription)) =>
        /\ Len(chunking.chunks) > 1
        /\ Len(chunking.text_to_use) <= max_length
        /\ HasKey(chunking.result, "note")

----------------------------------------------------------------------------
(* call_analysis.py: CallAnalysisService.process_transcriptions, the CSV mode *)

\* The rows of the transcriptions CSV of a run, and the replies of its client.
CsvRunRows == [file_name : CallIds, transcription : {<<"a">>, <<"ERROR:", "a">>}]
CsvRunReturns == {[result |-> FullReply, ms |-> 1], [result |-> ApiFailure, ms |-> 3]}

\* A row of analysis_df: of the formatted result's columns the model keeps call_id
\* and analysis_status, and `batch` tells which batch of the run wrote the row (0
\* for a row loaded from the analysis CSV).
AnalysisRow(formatted_result, batch) ==
    [call_id |-> formatted_result.call_id,
     analysis_status |-> formatted_result.analysis_status, batch |-> batch]

\* process_transcriptions up to the loop: load_analysis_results (the DataFrame of
\* the analysis CSV) and filter_transcriptions.
CsvProcessTranscriptions(reanalyze) ==
    /\ csv_run.pc = "ready"
    /\ LET work == FilterTranscriptions(transcriptions_df, analysis_df, reanalyze)
       IN  csv_run' = [csv_run EXCEPT !.pc = IF work = <<>> THEN "done" ELSE "loop",
                                      !.work = work]
    /\ op' = Op("filter_transcriptions", NULL, FALSE, TRUE, 0, reanalyze)
    /\ UNCHANGED <<poolVars, clientVars, serviceVars, notCsvRun>>
    /\ UNCHANGED <<store, transcriptions, analysis_results, call_transcriptions,
                   dao_save, transcriptions_df, analysis_df, selected>>

\* pd.concat([analysis_df[~analysis_df['call_id'].isin(call_ids)], batch_df])
MergeBatch(adf, batch_df) ==
    LET call_ids == {batch_df[k].call_id : k \in 1..Len(batch_df)}
    IN  SelectSeq(adf, LAMBDA row : row.call_id \notin call_ids) \o batch_df

\* One pass of the for loop: should_exit() is false, the batch is cut, analyze_batch
\* gets one reply per valid item, the results are formatted, merged and saved.
CsvBatch(returned) ==
    /\ csv_run.pc = "loop"
    /\ csv_run.i < Len(csv_run.work)
    /\ LET last == BatchEnd(csv_run.i, csv_run.batch_size, Len(csv_run.work))
           batch == SubSeq(csv_run.work, csv_run.i + 1, last)
           valid_items == PrepareBatchPrompts(batch)
           batch_df ==
              [k \in 1..Len(valid_items) |->
                 AnalysisRow(
                    FormatAnalysisResult(
                       Put(Put(returned[k].result, "call_id", valid_items[k].call_id),
                           "processing_time", returned[k].ms),
                       valid_items[k].call_id),
                    csv_run.batches + 1)]
       IN  /\ analysis_df' = IF batch_df = <<>> THEN analysis_df
                             ELSE MergeBatch(analysis_df, batch_df)
           /\ csv_run' = [csv_run EXCEPT !.i = csv_run.i + csv_run.batch_size,
                                         !.batches = csv_run.batches + 1]
    /\ op' = Op("process_transcriptions:batch", NULL, FALSE, TRUE, 0, FALSE)
    /\ UNCHANGED <<poolVars, clientVars, serviceVars, notCsvRun>>
    /\ UNCHANGED <<store, transcriptions, analysis_results, call_transcriptions,
                   dao_save, transcriptions_df, selected>>

\* The loop ends: the range is exhausted, or should_exit() is true at its head.
CsvLoopEnd(exit) ==
    /\ csv_run.pc = "loop"
    /\ exit \/ csv_run.i >= Len(csv_run.work)
    /\ csv_run' = [csv_run EXCEPT !.pc = "done"]
    /\ op' = Op("process_transcriptions", NULL, FALSE, TRUE, 0, FALSE)
    /\ UNCHANGED <<poolVars, clientVars, serviceVars, notCsvRun>>
    /\ UNCHANGED <<store, transcriptions, analysis_results, call_transcriptions,
                   dao_save, transcriptions_df, analysis_df, selected>>

\* A run starts on a transcriptions CSV and on an analysis CSV that holds at most
\* one row per call.
InitCsvRun ==
    /\ store = "csv"
    /\ transcriptions = <<>>
    /\ analysis_results = <<>>
    /\ call_transcriptions = <<>>
    /\ dao_save = <<>>
    /\ transcriptions_df \in BoundedSeq(CsvRunRows, MaxCsvRows)
    /\ \E loaded \in BoundedSeq(AnalysisDfRows, Cardinality(CallIds)) :
         /\ \A i, j \in 1..Len(loaded) : loaded[i].call_id = loaded[j].call_id => i = j
         /\ analysis_df = [i \in 1..Len(loaded) |->
                             [call_id |-> loaded[i].call_id,
                              analysis_status |-> loaded[i].analysis_status,
                              batch |-> 0]]
    /\ selected = <<>>
    /\ op = [name |-> "init"]
    /\ PoolOff
    /\ ClientOff
    /\ ServiceOff
    /\ ChunkingOff
    /\ ExportOff
    /\ FanoutOff
    /\ ConfigOff
    /\ AuthOff
    /\ SafeWriteOff
    /\ \E b \in 1..MaxBatchSize :
         csv_run = [NoCsvRun EXCEPT !.pc = "ready", !.batch_size = b]

NextCsvRun ==
    \/ \E reanalyze \in BOOLEAN : CsvProcessTranscriptions(reanalyze)
    \/ \E returned \in [1..MaxBatchSize -> CsvRunReturns] : CsvBatch(returned)
    \/ \E exit \in BOOLEAN : CsvLoopEnd(exit)

SpecCsvRun == InitCsvRun /\ [][NextCsvRun]_vars

----------------------------------------------------------------------------
(* Properties of the CSV mode, checked under SpecCsvRun *)

\* C23: after each batch is merged, analysis_df holds one row per call_id, and the
\* row of every call that the run has analysed is the one its last analysis made.
C23_OneRowPerCallAfterMerge ==
    csv_run.batches > 0 =>
        \A i, j \in 1..Len(analysis_df) :
            analysis_df[i].call_id = analysis_df[j].call_id => i = j

----------------------------------------------------------------------------
(* analyze_with_db.py: DbDataManager.save_analysis_results, with              *)
(* database_manager.py: DatabaseManager.export_to_csv, next to a reader of    *)
(* the file at analysis_path                                                  *)

\* df.to_csv(output_file, index=False): the header line, then one line per row.
CsvHeader ==
    [call_id |-> "call_id", analysis_status |-> "analysis_status",
     api_error |-> "api_error"]
CsvLines(df) == <<CsvHeader>> \o df

\* The lists handed to save_analysis_results.
MaxSavedResults == 1
SavedResults ==
    BoundedSeq([call_id : CallIds, analysis_status : {"completed", "failed"}],
               MaxSavedResults)

\* save_analysis_results up to the first export: the loop over the items.
ExportSaveLoop(results, failing) ==
    /\ export.pc = "call"
    /\ failing \subseteq 1..Len(results)
    /\ analysis_results' = SaveLoop(results, 1, failing, analysis_results, ParentIds).table
    /\ export' = [export EXCEPT !.pc = "query", !.path = "analysis_path"]
    /\ UNCHANGED <<store, transcriptions, call_transcriptions, dao_save,
                   transcriptions_df, analysis_df, selected, op>>
    /\ UNCHANGED <<poolVars, clientVars, serviceVars, notExport>>

\* export_to_csv: pd.read_sql_query("SELECT * FROM analysis_results").
ExportQuery ==
    /\ export.pc = "query"
    /\ export' = [export EXCEPT !.pc = "open", !.df = analysis_results]
    /\ UNCHANGED <<storeVars, poolVars, clientVars, serviceVars, notExport>>

\* df.to_csv opens output_file for writing, which creates or truncates it.
ExportOpen ==
    /\ export.pc = "open"
    /\ export' = [export EXCEPT !.pc = "write", !.written = 0,
                                ![export.path] = [exists |-> TRUE, lines |-> <<>>]]
    /\ UNCHANGED <<storeVars, poolVars, clientVars, serviceVars, notExport>>

\* The next line reaches the file; after the last one the file is closed and
\* export_to_csv returns: the second export follows the first, then the method ends.
ExportWriteLine ==
    /\ export.pc = "write"
    /\ LET lines == CsvLines(export.df)
           n == export.written + 1
       IN  export' = [export EXCEPT
                        !.written = n,
                        ![export.path] = [exists |-> TRUE, lines |-> SubSeq(lines, 1, n)],
                        !.pc = IF n < Len(lines) THEN "write"
                               ELSE IF export.path = "analysis_path" THEN "query"
                               ELSE "done",
                        !.path = IF n < Len(lines) THEN @ ELSE "date_based_path"]
    /\ UNCHANGED <<storeVars, poolVars, clientVars, serviceVars, notExport>>

\* Another process reads the file at analysis_path.
ReadOutputPath ==
    /\ export.pc \in {"call", "query", "open", "write", "done"}
    /\ export.analysis_path.exists
    /\ export' = [export EXCEPT !.read = export.analysis_path]
    /\ UNCHANGED <<storeVars, poolVars, clientVars, serviceVars, notExport>>

\* The database file and the output directory as the call finds them: the rows
\* that earlier batches left, and their export at analysis_path or no file yet.
InitExport ==
    /\ store = "database_manager"
    /\ transcriptions = <<TranscriptionRow("c1", <<"a">>), TranscriptionRow("c2", <<"a">>)>>
    /\ \E a1 \in EarlierRows("c1"), a2 \in EarlierRows("c2"), exists \in BOOLEAN :
         /\ analysis_results = a1 \o a2
         /\ LET file == IF exists
                        THEN [exists |-> TRUE, lines |-> CsvLines(a1 \o a2)]
                        ELSE NoFile
            IN  export = [NoExport EXCEPT !.pc = "call", !.old = file,
                                          !.analysis_path = file]
    /\ call_transcriptions = <<>>
    /\ dao_save = <<>>
    /\ transcriptions_df = <<>>
    /\ analysis_df = <<>>
    /\ selected = <<>>
    /\ op = [name |-> "init"]
    /\ PoolOff
    /\ ClientOff
    /\ ServiceOff
    /\ ChunkingOff
    /\ CsvRunOff
    /\ FanoutOff
    /\ ConfigOff
    /\ AuthOff
    /\ SafeWriteOff

NextExport ==
    \/ \E results \in SavedResults, failing \in SUBSET (1..MaxSavedResults) :
         ExportSaveLoop(results, failing)
    \/ ExportQuery
    \/ ExportOpen
    \/ ExportWriteLine
    \/ ReadOutputPath

SpecExport == InitExport /\ [][NextExport]_vars

----------------------------------------------------------------------------
(* Properties of the export, checked under SpecExport *)

\* C24: once export_to_csv has opened an output path that held a file, a backup
\* copy of that file exists; and whatever a reader of analysis_path reads is a whole
\* export: the file as it was before the call, or all lines of the new export.
C24_BackupAndAtomicReplace ==
    /\ (export.pc \in {"write", "done"} /\ export.old.exists) =>
          export.old.lines \in export.backups
    /\ export.read.exists =>
          \/ export.read = export.old
          \/ export.read.lines = CsvLines(export.df)

----------------------------------------------------------------------------
(* Referential integrity in the DAO layer, checked under SpecStore *)

\* C25: after any sequence of saves and deletes through the DAOs, every row of
\* analysis_results has the call_id of a row of call_transcriptions.
C25_ReferentialIntegrity ==
    store = "dao" =>
        \A i \in 1..Len(analysis_results) :
            RowsWith(call_transcriptions, analysis_results[i].call_id) # {}

----------------------------------------------------------------------------
(* The batch orchestrators and the requests they have in flight:              *)
(* analyze_with_db.py DbCallAnalysisService.analyze_batch (called batch by    *)
(* batch from process_transcriptions) and process_clips.py                    *)
(* ClipProcessor.process_files                                                *)

MaxFiles == 4

\* The items of the batch that starts after item i.
BatchOf(f) == {k \in 1..Len(f.item) : f.i < k /\ k <= f.i + f.batch_size}
InFlight(f) == {k \in 1..Len(f.item) : f.item[k] = "request"}

\* `for ... : result = await self.openai_client.analyze_transcript(...)`: the loop
\* reaches item k when the calls for the items before it have returned.
AwaitsAnyOrder(f, k) == TRUE

AwaitsInOrder(f, k) == \A j \in BatchOf(f) : j < k => f.item[j] = "done"

\* analyze_batch hands item k to the client.
AnalyzeBatchSend(k) ==
    /\ fanout.orchestrator = "analyze_batch"
    /\ k \in BatchOf(fanout)
    /\ fanout.item[k] = "todo"
    /\ AwaitsInOrder(fanout, k)
    /\ fanout' = [fanout EXCEPT !.item[k] = "request"]
    /\ UNCHANGED <<storeVars, poolVars, clientVars, serviceVars, notFanout>>

\* asyncio.gather(*[self.process_file(file) for file in batch]): the task of file
\* k starts when the tasks before it have reached their first await.  It
\* transcribes (a blocking call) and saves, and analyze_transcription either
\* returns at once (the transcription is an error or too short) or awaits the
\* client.
ProcessFile(k, skipped) ==
    /\ fanout.orchestrator = "process_files"
    /\ k \in BatchOf(fanout)
    /\ fanout.item[k] = "todo"
    /\ \A j \in BatchOf(fanout) : j < k => fanout.item[j] # "todo"
    /\ fanout' = [fanout EXCEPT !.item[k] = IF skipped THEN "done" ELSE "request"]
    /\ UNCHANGED <<storeVars, poolVars, clientVars, serviceVars, notFanout>>

\* analyze_transcript returns for item k (with a result or with an api_error).
AnalyzeTranscriptReturns(k) ==
    /\ fanout.orchestrator \in {"analyze_batch", "process_files"}
    /\ k \in InFlight(fanout)
    /\ fanout' = [fanout EXCEPT !.item[k] = "done"]
    /\ UNCHANGED <<storeVars, poolVars, clientVars, serviceVars, notFanout>>

\* The batch is done (analyze_batch has returned and its results are saved; gather
\* has returned) and the for loop over the batches moves on.
FanoutNextBatch ==
    /\ fanout.orchestrator \in {"analyze_batch", "process_files"}
    /\ \A k \in BatchOf(fanout) : fanout.item[k] = "done"
    /\ fanout.i + fanout.batch_size < Len(fanout.item)
    /\ fanout' = [fanout EXCEPT !.i = @ + fanout.batch_size]
    /\ UNCHANGED <<storeVars, poolVars, clientVars, serviceVars, notFanout>>

InitFanout ==
    /\ StoreOff
    /\ PoolOff
    /\ ClientOff
    /\ ServiceOff
    /\ ChunkingOff
    /\ CsvRunOff
    /\ ExportOff
    /\ ConfigOff
    /\ AuthOff
    /\ SafeWriteOff
    /\ \E o \in {"analyze_batch", "process_files"}, b \in 1..MaxBatchSize,
          n \in 1..MaxFiles :
         fanout = [orchestrator |-> o, batch_size |-> b, i |-> 0,
                   item |-> [k \in 1..n |-> "todo"]]

NextFanout ==
    \/ \E k \in 1..MaxFiles : AnalyzeBatchSend(k)
    \/ \E k \in 1..MaxFiles, skipped \in BOOLEAN : ProcessFile(k, skipped)
    \/ \E k \in 1..MaxFiles : AnalyzeTranscriptReturns(k)
    \/ FanoutNextBatch

SpecFanout == InitFanout /\ [][NextFanout]_vars

----------------------------------------------------------------------------
(* Properties of the orchestrators, checked under SpecFanout *)

\* C26, amended: analyze_batch never has two requests in flight; process_files has
\* at most batch_size requests in flight, all of them for files of the batch that
\* it is gathering.
C26_InFlightPerOrchestrator ==
    /\ fanout.orchestrator = "analyze_batch" => Cardinality(InFlight(fanout)) <= 1
    /\ fanout.orchestrator = "process_files" =>
          /\ Cardinality(InFlight(fanout)) <= fanout.batch_size
          /\ InFlight(fanout) \subseteq BatchOf(fanout)

\* analyze_batch has sent the second item of a batch after the first one returned.
C26_Witness ==
    /\ fanout.orchestrator = "analyze_batch"
    /\ fanout.batch_size >= 2
    /\ \E k \in InFlight(fanout) :
          k - 1 \in BatchOf(fanout) /\ fanout.item[k - 1] = "done"

\* C26 as stated: neither orchestrator ever has two requests in flight.
C26_AsStated == Cardinality(InFlight(fanout)) <= 1

----------------------------------------------------------------------------
(* Two callers in AnalysisResultDAO.save at once, checked under SpecStore *)

\* C28: when two callers save results for one call_id through
\* AnalysisResultDAO.save at the same time, each save that carries its
\* analysis_status succeeds, and the one row of the call holds the values of the
\* save that committed last.
C28_LastWriterWins ==
    [][\A c \in Callers :
         (/\ dao_save[c].pc = "checked"
          /\ dao_save'[c].pc = "idle"
          /\ HasKey(dao_save[c].data, "analysis_status"))
         => /\ op'.ok
            /\ Cardinality(RowsWith(analysis_results', dao_save[c].data.call_id)) = 1
            /\ \A i \in RowsWith(analysis_results', dao_save[c].data.call_id) :
                  analysis_results'[i].analysis_status
                      = dao_save[c].data.analysis_status]_vars

----------------------------------------------------------------------------
(* The response that is no JSON object, checked under SpecClient *)

ParseFailures == {"JSON parsing error", "No valid JSON found in response"}

\* C29: in both implementations analyze_transcript returns a parse failure as its
\* result only from the final attempt; while attempts remain a response that is no
\* JSON object leads to a backoff and a fresh request.
C29_MalformedJsonRetried ==
    \A a \in Tasks :
        (/\ task[a].pc = "done"
         /\ HasKey(task[a].result, "api_error")
         /\ task[a].result.api_error \in ParseFailures)
        => IF rate_limited
           THEN task[a].attempt + 1 >= max_retries
           ELSE task[a].attempt >= max_retries

----------------------------------------------------------------------------
(* dao/config_dao.py: ConfigDAO.save_config, get_config and delete_config *)

MaxListLen == 2

ConfigKeys == {"k1", "k2"}

\* Python values: the type and the value.  A float is given in tenths; a list is
\* the sequence of its items and a dict the sequence of its <<key, value>> items.
Py(type, val) == [type |-> type, val |-> val]
None == Py("NoneType", "None")
ConfigStrs == {"a", "null", "true", "1"}
ConfigInts == {0, 1}
ConfigFloats == {5, 10}
Scalars == {Py("str", "a"), Py("int", 1)}
ConfigValues ==
    {Py("str", s) : s \in ConfigStrs}
        \cup {Py("int", n) : n \in ConfigInts}
        \cup {Py("float", x) : x \in ConfigFloats}
        \cup {Py("bool", b) : b \in BOOLEAN}
        \cup {None}
        \cup {Py("list", l) : l \in BoundedSeq(Scalars, MaxListLen)}
        \cup {Py("dict", d) : d \in BoundedSeq(Scalars \X Scalars, 1)}

\* str(value) of a bool, an int, a float
StrOf(value) ==
    CASE value.type = "bool" -> IF value.val THEN "True" ELSE "False"
      [] value.type = "int" -> IF value.val = 0 THEN "0" ELSE "1"
      [] value.type = "float" -> IF value.val = 5 THEN "0.5" ELSE "1.0"

\* str.lower
LowerBool(s) == CASE s = "True" -> "true" [] s = "False" -> "false" [] OTHER -> s

\* int(value_str) and float(value_str)
IntOf(s) == Py("int", CHOOSE n \in ConfigInts : StrOf(Py("int", n)) = s)
FloatOf(s) == Py("float", CHOOSE x \in ConfigFloats : StrOf(Py("float", x)) = s)

\* A JSON text is the sequence of its tokens; a string token carries its quotes.
Quoted(s) == CASE s = "a" -> "\"a\"" [] s = "1" -> "\"1\""
Unquoted(token) == CHOOSE s \in {"a", "1"} : Quoted(s) = token
IsQuoted(token) == \E s \in {"a", "1"} : Quoted(s) = token

\* json.dumps of an item of a list and of a key of a dict: a key that is no
\* string becomes the string of its value
DumpsItem(e) == IF e.type = "str" THEN Quoted(e.val) ELSE StrOf(e)
DumpsKey(e) == IF e.type = "str" THEN Quoted(e.val) ELSE Quoted(StrOf(e))

RECURSIVE DumpsItems(_, _)
DumpsItems(items, dict) ==
    IF items = <<>> THEN <<>>
    ELSE (IF dict
          THEN <<DumpsKey(Head(items)[1]), ":", DumpsItem(Head(items)[2])>>
          ELSE <<DumpsItem(Head(items))>>)
         \o (IF Tail(items) = <<>> THEN <<>> ELSE <<",">>)
         \o DumpsItems(Tail(items), dict)

\* json.dumps(value) of a list or a dict
ConfigJsonDumps(value) ==
    IF value.type = "dict"
    THEN <<"{">> \o DumpsItems(value.val, TRUE) \o <<"}">>
    ELSE <<"[">> \o DumpsItems(value.val, FALSE) \o <<"]">>

LoadsItem(token) == IF IsQuoted(token) THEN Py("str", Unquoted(token)) ELSE IntOf(token)

\* json.loads(value_str) of a text that holds a list or a dict
ConfigJsonLoads(text) ==
    IF Head(text) = "{"
    THEN Py("dict", [j \in 1..((Len(text) - 1) \div 4) |->
                        <<LoadsItem(text[4 * j - 2]), LoadsItem(text[4 * j])>>])
    ELSE Py("list", [j \in 1..((Len(text) - 1) \div 2) |-> LoadsItem(text[2 * j])])

\* ConfigDAO._prepare_value: (data_type, value_str)
PrepareValue(value) ==
    CASE value = None -> <<"null", <<"null">>>>
      [] value.type = "bool" -> <<"bool", <<LowerBool(StrOf(value))>>>>
      [] value.type = "int" -> <<"int", <<StrOf(value)>>>>
      [] value.type = "float" -> <<"float", <<StrOf(value)>>>>
      [] value.type = "str" -> <<"str", <<value.val>>>>
      [] value.type \in {"dict", "list"} -> <<"json", ConfigJsonDumps(value)>>

\* ConfigDAO._convert_value
ConvertValue(value_str, data_type) ==
    IF data_type = "null" \/ value_str = <<"null">> THEN None
    ELSE CASE data_type = "bool" -> Py("bool", LowerBool(value_str[1]) = "true")
           [] data_type = "int" -> IntOf(value_str[1])
           [] data_type = "float" -> FloatOf(value_str[1])
           [] data_type = "str" -> Py("str", value_str[1])
           [] data_type = "json" -> ConfigJsonLoads(value_str)

ConfigRows(table, key) == {i \in 1..Len(table) : table[i].config_key = key}

\* INSERT INTO system_config ... ON CONFLICT(config_key) DO UPDATE SET ...
Upsert(table, row) ==
    IF ConfigRows(table, row.config_key) # {}
    THEN [i \in 1..Len(table) |->
            IF table[i].config_key = row.config_key THEN row ELSE table[i]]
    ELSE Append(table, row)

\* What the callers have passed to save_config, key by key.
Unsaved == Py("unsaved", "")

SaveConfig(key, value) ==
    /\ ~ConfigOff
    /\ LET prepared == PrepareValue(value)
       IN  config' = [config EXCEPT
              !.system_config = Upsert(@, [config_key |-> key,
                                           config_value |-> prepared[2],
                                           data_type |-> prepared[1]]),
              !.saved[key] = value,
              !.got = [pc |-> "saved"]]
    /\ UNCHANGED <<storeVars, poolVars, clientVars, serviceVars, notConfig>>

\* get_config: the converted value, or RecordNotFoundError
GetConfig(key) ==
    /\ ~ConfigOff
    /\ config' = [config EXCEPT !.got =
          IF ConfigRows(config.system_config, key) = {}
          THEN [pc |-> "raised", key |-> key]
          ELSE LET row == config.system_config[
                             CHOOSE i \in ConfigRows(config.system_config, key) : TRUE]
               IN  [pc |-> "returned", key |-> key,
                    value |-> ConvertValue(row.config_value, row.data_type)]]
    /\ UNCHANGED <<storeVars, poolVars, clientVars, serviceVars, notConfig>>

DeleteConfig(key) ==
    /\ ~ConfigOff
    /\ config' = [config EXCEPT
          !.system_config = SelectSeq(@, LAMBDA row : row.config_key # key),
          !.saved[key] = Unsaved,
          !.got = [pc |-> "deleted"]]
    /\ UNCHANGED <<storeVars, poolVars, clientVars, serviceVars, notConfig>>

\* ConfigDAO.__init__ on a new database: _ensure_table_exists
InitConfig ==
    /\ StoreOff
    /\ PoolOff
    /\ ClientOff
    /\ ServiceOff
    /\ ChunkingOff
    /\ CsvRunOff
    /\ ExportOff
    /\ FanoutOff
    /\ AuthOff
    /\ SafeWriteOff
    /\ config = [system_config |-> <<>>, saved |-> [k \in ConfigKeys |-> Unsaved],
                 got |-> [pc |-> "init"]]

NextConfig ==
    \/ \E key \in ConfigKeys, value \in ConfigValues : SaveConfig(key, value)
    \/ \E key \in ConfigKeys : GetConfig(key)
    \/ \E key \in ConfigKeys : DeleteConfig(key)

SpecConfig == InitConfig /\ [][NextConfig]_vars

----------------------------------------------------------------------------
(* Properties of ConfigDAO, checked under SpecConfig *)

\* C30: get_config(key) returns a value equal to, and of the type of, the value
\* that the last save_config(key, v) stored, for every string, int, float, bool,
\* list and dict v; and system_config holds one entry per key.
C30_ConfigRoundTrip ==
    /\ (/\ config.got.pc = "returned"
        /\ config.saved[config.got.key].type
              \in {"str", "int", "float", "bool", "list", "dict"})
       => config.got.value = config.saved[config.got.key]
    /\ \A key \in ConfigKeys :
          Cardinality(ConfigRows(config.system_config, key)) <= 1

----------------------------------------------------------------------------
(* dao/user_dao.py: UserDAO and its sessions.  The users table holds one user, *)
(* "u1"; time is int(time.time()).                                             *)

MaxSessions == 2
MaxTime == 3
Durations == {1, 2}

KeepSessions(sessions, session_id) == sessions

\* DELETE FROM sessions WHERE session_id = ?
DeleteSession(sessions, session_id) ==
    SelectSeq(sessions, LAMBDA row : row.session_id # session_id)

SessionRows(sessions, session_id) ==
    {i \in 1..Len(sessions) : sessions[i].session_id = session_id}

Returned(name, session_id, value) ==
    [name |-> name, session |-> session_id, value |-> value]

\* create_session: os.urandom(16).hex() is an id that no session has had; the
\* INSERT fails on the foreign key when there is no such user, and the method
\* raises DatabaseError.
CreateSession(user_id, duration) ==
    /\ ~AuthOff
    /\ Len(auth.issued) < MaxSessions
    /\ LET session_id == Len(auth.issued) + 1
           row == [session_id |-> session_id, user_id |-> user_id,
                   expires_at |-> auth.now + duration]
       IN  IF user_id = "u1"
           THEN auth' = [auth EXCEPT !.sessions = Append(@, row),
                                     !.issued = Append(@, row),
                                     !.ret = Returned("create_session", session_id,
                                                      "session_id")]
           ELSE auth' = [auth EXCEPT !.ret = Returned("create_session", 0,
                                                      "DatabaseError")]
    /\ UNCHANGED <<storeVars, poolVars, clientVars, serviceVars, notAuth>>

\* validate_session: SELECT u.* FROM users u JOIN sessions s ... WHERE
\* s.session_id = ? AND s.expires_at > ? AND u.is_active = 1
ValidateSession(session_id) ==
    /\ ~AuthOff
    /\ LET found == {i \in SessionRows(auth.sessions, session_id) :
                        /\ auth.sessions[i].expires_at > auth.now
                        /\ auth.is_active}
       IN  auth' = [auth EXCEPT !.ret =
              Returned("validate_session", session_id,
                       IF found = {} THEN "None"
                       ELSE auth.sessions[CHOOSE i \in found : TRUE].user_id)]
    /\ UNCHANGED <<storeVars, poolVars, clientVars, serviceVars, notAuth>>

\* invalidate_session: the SELECT, then the DELETE, its commit and the log entry
InvalidateSession(session_id) ==
    /\ ~AuthOff
    /\ IF SessionRows(auth.sessions, session_id) # {}
       THEN auth' = [auth EXCEPT
                !.sessions = DeleteSession(@, session_id),
                !.invalidated = @ \cup {session_id},
                !.ret = Returned("invalidate_session", session_id, "True")]
       ELSE auth' = [auth EXCEPT
                !.ret = Returned("invalidate_session", session_id, "False")]
    /\ UNCHANGED <<storeVars, poolVars, clientVars, serviceVars, notAuth>>

\* cleanup_expired_sessions: DELETE FROM sessions WHERE expires_at <= ?
CleanupExpiredSessions ==
    /\ ~AuthOff
    /\ LET kept == SelectSeq(auth.sessions, LAMBDA row : row.expires_at > auth.now)
       IN  auth' = [auth EXCEPT
              !.sessions = kept,
              !.ret = Returned("cleanup_expired_sessions", 0, "count")]
    /\ UNCHANGED <<storeVars, poolVars, clientVars, serviceVars, notAuth>>

\* update_user("u1", {'is_active': is_active}); deactivate_user is the call with 0
UpdateUser(is_active) ==
    /\ ~AuthOff
    /\ auth' = [auth EXCEPT !.is_active = is_active,
                            !.ret = Returned("update_user", 0, "True")]
    /\ UNCHANGED <<storeVars, poolVars, clientVars, serviceVars, notAuth>>

\* One second passes.
AuthTick ==
    /\ ~AuthOff
    /\ auth.now < MaxTime
    /\ auth' = [auth EXCEPT !.now = @ + 1]
    /\ UNCHANGED <<storeVars, poolVars, clientVars, serviceVars, notAuth>>

\* UserDAO.__init__ and create_user: the tables exist, the user is active
InitAuth ==
    /\ StoreOff
    /\ PoolOff
    /\ ClientOff
    /\ ServiceOff
    /\ ChunkingOff
    /\ CsvRunOff
    /\ ExportOff
    /\ FanoutOff
    /\ ConfigOff
    /\ SafeWriteOff
    /\ auth = [now |-> 0, is_active |-> TRUE, sessions |-> <<>>, issued |-> <<>>,
               invalidated |-> {}, ret |-> Returned("create_user", 0, "u1")]

NextAuth ==
    \/ \E user_id \in {"u1", "u0"}, duration \in Durations :
          CreateSession(user_id, duration)
    \/ \E session_id \in 1..MaxSessions : ValidateSession(session_id)
    \/ \E session_id \in 1..MaxSessions : InvalidateSession(session_id)
    \/ CleanupExpiredSessions
    \/ \E is_active \in BOOLEAN : UpdateUser(is_active)
    \/ AuthTick

SpecAuth == InitAuth /\ [][NextAuth]_vars

----------------------------------------------------------------------------
(* Properties of the sessions, checked under SpecAuth *)

\* C31: validate_session returns the user of a session that create_session made,
\* while the user is active, the session has not expired and invalidate_session
\* has not returned True for it; after invalidate_session(s) has returned True,
\* validate_session(s) returns None and invalidate_session(s) returns False.
C31_SessionLifecycle ==
    [][LET ret == auth'.ret
           s == ret.session
       IN  /\ (ret.name = "validate_session" /\ ret # auth.ret) =>
                 /\ (/\ s \in 1..Len(auth.issued)
                     /\ s \notin auth.invalidated
                     /\ auth.now < auth.issued[s].expires_at
                     /\ auth.is_active)
                    => ret.value = auth.issued[s].user_id
                 /\ s \in auth.invalidated => ret.value = "None"
           /\ (ret.name = "invalidate_session" /\ ret # auth.ret
                  /\ s \in auth.invalidated)
              => ret.value = "False"]_vars

\* validate_session has returned None for a session that was invalidated, although
\* the session has not expired and its user is active.
C31_Witness ==
    /\ auth.ret.name = "validate_session"
    /\ auth.ret.value = "None"
    /\ auth.ret.session \in auth.invalidated
    /\ auth.now < auth.issued[auth.ret.session].expires_at
    /\ auth.is_active

----------------------------------------------------------------------------
(* One run of DbCallAnalysisService.process_transcriptions over up to MaxWork *)
(* transcriptions that all need analysis                                      *)

MaxWork == 3
RunIds == <<"c1", "c2", "c3", "c4">>

\* The database file holds n transcriptions of one import and no analysis row.
InitBatches ==
    /\ store = "database_manager"
    /\ \E n \in 0..MaxWork :
         transcriptions = [k \in 1..n |-> TranscriptionRow(RunIds[k], <<"a">>)]
    /\ analysis_results = <<>>
    /\ analysis_csv = <<>>
    /\ call_transcriptions = <<>>
    /\ dao_save = <<>>
    /\ transcriptions_df = <<>>
    /\ analysis_df = <<>>
    /\ selected = <<>>
    /\ op = [name |-> "init"]
    /\ PoolOff
    /\ ClientOff
    /\ exit_requested = FALSE
    /\ analysis_stats = <<>>
    /\ \E b \in 1..MaxBatchSize :
         service = [IdleService EXCEPT !.pc = "ready", !.batch_size = b]
    /\ stats = NewStats
    /\ sent = <<>>
    /\ scoring = NoScoring
    /\ ToolsOff

\* The steps of the loop: every reply is a full one, and the store does not fail.
BatchesStep ==
    \/ NextBatch
    \/ AnalyzeItem([result |-> FullReply, ms |-> 1, usage |-> Usage(1, 1)])
    \/ SaveAnalysisResults({})
    \/ SaveStats(FALSE)

NextBatches ==
    \/ \E reanalyze \in BOOLEAN : ProcessTranscriptions(reanalyze)
    \/ SignalHandler
    \/ BatchesStep

\* Once process_transcriptions is in its loop the coroutine runs on as in
\* SpecServiceFair.  At most one of the steps is enabled at a time.
SpecBatches == InitBatches /\ [][NextBatches]_vars /\ WF_vars(BatchesStep)

\* ceil(n / batch_size)
CeilDiv(n, batch_size) == (n + batch_size - 1) \div batch_size

IsPrefix(s, t) == Len(s) <= Len(t) /\ s = SubSeq(t, 1, Len(s))

\* C32: while the exit flag is not set, batch k of a run is the items
\* (k - 1) * batch_size + 1 .. min(k * batch_size, n) of the selection, in its
\* order; the items are sent to the client in that order, each at most once; the
\* run ends, and it ends after ceil(n / batch_size) batches with every item sent.
C32_ConsecutiveBatches ==
    /\ [](~exit_requested =>
            /\ service.pc \in {"analyze", "save"} =>
                  /\ service.i = (service.batches - 1) * service.batch_size
                  /\ service.valid_items =
                        PrepareBatchPrompts(
                           SubSeq(service.work, service.i + 1,
                                  Min(service.batches * service.batch_size,
                                      Len(service.work))))
            /\ service.pc = "loop" => service.i = service.batches * service.batch_size
            /\ IsPrefix(sent, CallIdsOf(service.work))
            /\ service.pc = "done" =>
                  /\ service.batches = CeilDiv(Len(service.work), service.batch_size)
                  /\ sent = CallIdsOf(service.work))
    /\ (service.pc = "loop") ~> (service.pc = "done")

\* A run of three items in batches of two has started its second batch, which
\* holds the third item alone.
C32_Witness ==
    /\ ~exit_requested
    /\ Len(service.work) = 3
    /\ service.batch_size = 2
    /\ service.batches = 2
    /\ service.pc = "analyze"
    /\ Len(service.valid_items) = 1
    /\ Len(sent) = 2

----------------------------------------------------------------------------
(* Backoff of the rate-limited client, checked under SpecClient *)

\* C33: in the rate-limited client a timeout or rate-limit error on attempt k is
\* followed by a sleep of 2^k + 1 seconds, which grows from one attempt to the
\* next, and a request is only ever sent from _rate_limit, never straight from
\* the backoff.
C33_ExponentialBackoff ==
    [][rate_limited =>
         \A a \in Tasks :
            /\ (task[a].pc = "request" /\ task'[a].pc = "backoff") =>
                  /\ task'[a].sleep = Pow2(task[a].attempt) + 1
                  /\ task[a].attempt > 0 =>
                        task'[a].sleep > Pow2(task[a].attempt - 1) + 1
            /\ task[a].pc = "backoff" => task'[a].pc \in {"backoff", "rate_limit", "done"}
            /\ (task[a].pc # "request" /\ task'[a].pc = "request") =>
                  task[a].pc \in {"rate_limit", "rl_sleep"}]_vars

\* A task of the rate-limited client sleeps 3 seconds after its second transient
\* failure in a row.
C33_Witness ==
    /\ rate_limited
    /\ \E a \in Tasks :
          /\ task[a].pc = "backoff"
          /\ task[a].attempt = 1
          /\ task[a].failures = 2
          /\ task[a].sleep = 3


----------------------------------------------------------------------------
(* The totals of the statistics row, checked under SpecService *)

\* C34: the statistics row that a run flushes records total_tokens and total_cost
\* equal to the sums of the token usage and of the estimated cost that the client
\* reported for the items analysed in the run.
C34_StatsRowTotals ==
    (service.pc = "done" /\ Len(analysis_stats) > service.stats_rows) =>
        LET row == analysis_stats[Len(analysis_stats)]
        IN  /\ row.total_tokens = service.tokens_reported
            /\ row.total_cost = service.cost_reported


----------------------------------------------------------------------------
(* The status that format_analysis_result assigns: runs in which the client
   returns any of its results *)

NextStatus ==
    \/ \E reanalyze \in BOOLEAN : ProcessTranscriptions(reanalyze)
    \/ NextBatch
    \/ \E returned \in AllClientReturns : AnalyzeItem(returned)
    \/ \E failing \in SUBSET (1..MaxBatchSize) : SaveAnalysisResults(failing)
    \/ \E fails \in BOOLEAN : SaveStats(fails)

SpecStatus == InitBatches /\ [][NextStatus]_vars


HasValidAnalysis(result) ==
    HasKey(result, "issue_classification") \/ HasKey(result, "issue_summary")

AllStatuses == {"completed", "partial", "failed"}

\* Every group that the formatter reads with .get is an object or absent.
C36_GroupsAreObjects(result) ==
    \A k \in FormatterGroups : HasKey(result, k) => IsDict(result[k])

\* C36: format_analysis_result assigns 'completed' exactly when the client result
\* has neither an api_error nor an error key and every group of it is an object,
\* 'partial' exactly when it has an api_error together with issue_classification
\* or issue_summary and every group of it is an object, and 'failed' in every
\* other case; every stored result has a status in {completed, partial, failed},
\* and the result after the last malformed response is stored as 'partial'.
C36_StatusOfResult ==
    /\ \A k \in 1..Len(service.results) :
         LET result == service.client_results[k]
             analysis_status == service.results[k].analysis_status
         IN  /\ analysis_status = "completed" <=>
                   /\ ~HasKey(result, "api_error") /\ ~HasKey(result, "error")
                   /\ C36_GroupsAreObjects(result)
             /\ analysis_status = "partial" <=>
                   /\ HasKey(result, "api_error") /\ HasValidAnalysis(result)
                   /\ C36_GroupsAreObjects(result)
             /\ analysis_status \in AllStatuses
             /\ result = JsonFailure => analysis_status = "partial"
    /\ FormatAnalysisResult([error |-> "err"], "c1").analysis_status = "failed"
    /\ FormatAnalysisResult([api_error |-> "err"], "c1").analysis_status = "failed"
    /\ \A k \in 1..Len(analysis_results) :
         analysis_results[k].analysis_status \in AllStatuses
    /\ service.pc \in {"loop", "stats", "done"} =>
         \A k \in 1..Len(service.handed), j \in 1..Len(analysis_results) :
            (/\ analysis_results[j].call_id = service.handed[k]
             /\ service.save_returns[k]
             /\ service.client_results[k] = JsonFailure)
            => analysis_results[j].analysis_status = "partial"

\* A batch of two is saved: the result after the last malformed response, then a
\* reply whose issue_classification is no object.
C36_Witness ==
    /\ service.pc = "loop"
    /\ service.client_results = <<JsonFailure, MalformedReply>>
    /\ service.save_returns = <<TRUE, TRUE>>
    /\ Len(analysis_results) = 2

\* C36 as the specification states it: the keys of the client result alone decide.
C36_AsStated ==
    \A k \in 1..Len(service.results) :
       LET result == service.client_results[k]
           analysis_status == service.results[k].analysis_status
       IN  /\ analysis_status = "completed" <=>
                 ~HasKey(result, "api_error") /\ ~HasKey(result, "error")
           /\ analysis_status = "partial" <=>
                 HasKey(result, "api_error") /\ HasValidAnalysis(result)
           /\ analysis_status \in AllStatuses


----------------------------------------------------------------------------
(* The counters of the run statistics, checked under SpecStatus *)

\* C37: after every processed item successful + failed = total_processed; an item
\* is counted as successful exactly when its formatted analysis_status is
\* 'completed', and as failed otherwise; none of the three counters decreases.
C37_CountersAddUp ==
    /\ [](stats.successful + stats.failed = stats.total_processed)
    /\ [][/\ stats'.total_processed >= stats.total_processed
          /\ stats'.successful >= stats.successful
          /\ stats'.failed >= stats.failed
          /\ Len(service'.results) = Len(service.results) + 1 =>
                LET formatted_result == service'.results[Len(service'.results)]
                    completed == formatted_result.analysis_status = "completed"
                IN  /\ stats'.total_processed = stats.total_processed + 1
                    /\ stats'.successful = stats.successful + (IF completed THEN 1 ELSE 0)
                    /\ stats'.failed = stats.failed + (IF completed THEN 0 ELSE 1)]_vars

\* Three items are counted: one completed, one partial, one failed.
C37_Witness ==
    /\ stats.total_processed = 3 /\ stats.successful = 1 /\ stats.failed = 2
    /\ Len(service.results) = 1
    /\ service.results[1].analysis_status = "partial"
    /\ service.batch_size = 2
    /\ Len(analysis_results) = 2
    /\ analysis_results[1].analysis_status = "completed"
    /\ analysis_results[2].analysis_status = "failed"


----------------------------------------------------------------------------
(* Re-import of a changed transcript: database_manager.py with files whose rows
   carry a duration, analysis results and work selection *)

DurationSeconds == {1, 2}

ReimportRows ==
    [file_name : CallIds, transcription : {<<"a">>, <<"b">>, <<"ERROR:", "a">>},
     duration_seconds : DurationSeconds]

ReimportResults == [call_id : CallIds, analysis_status : {"completed", "failed"}]

NextReimport ==
    \/ \E row \in ReimportRows : ImportTranscriptionsFromCsv(<<row>>)
    \/ \E result \in ReimportResults : SaveAnalysisResult(result)
    \/ \E reanalyze \in BOOLEAN : SelectWork(reanalyze)

SpecReimport == InitImport /\ [][NextReimport]_vars

\* C38: an import changes no analysis row and, of a row that exists, nothing but
\* transcription, hash_value and import_timestamp; a transcription whose analysis
\* is 'completed' is selected by a reanalyze run and by no other.
C38_ReimportKeepsAnalysis ==
    /\ [][transcriptions' # transcriptions =>
            /\ analysis_results' = analysis_results
            /\ Len(transcriptions') >= Len(transcriptions)
            /\ \A i \in 1..Len(transcriptions) :
                  /\ transcriptions'[i].call_id = transcriptions[i].call_id
                  /\ transcriptions'[i].duration_seconds
                        = transcriptions[i].duration_seconds
                  /\ transcriptions'[i].hash_value
                        = Md5(transcriptions'[i].transcription)]_vars
    /\ [](op.name = "get_transcriptions_for_analysis" =>
            \A i \in 1..Len(transcriptions) :
               (\E j \in 1..Len(analysis_results) :
                   /\ analysis_results[j].call_id = transcriptions[i].call_id
                   /\ analysis_results[j].analysis_status = "completed")
               => ((\E k \in 1..Len(selected) :
                       selected[k].call_id = transcriptions[i].call_id)
                   <=> op.reanalyze))

\* c1 was imported before c2 and again after it, with a changed text and another
\* duration; its analysis is 'completed' and a default selection leaves it out.
C38_Witness ==
    /\ op.name = "get_transcriptions_for_analysis" /\ ~op.reanalyze
    /\ Len(transcriptions) = 2
    /\ transcriptions[1].call_id = "c1"
    /\ transcriptions[1].import_timestamp > transcriptions[2].import_timestamp
    /\ transcriptions[1].transcription = <<"b">>
    /\ transcriptions[1].duration_seconds = 1
    /\ \E j \in 1..Len(analysis_results) :
          /\ analysis_results[j].call_id = "c1"
          /\ analysis_results[j].analysis_status = "completed"
    /\ \A k \in 1..Len(selected) : selected[k].call_id # "c1"
    /\ selected # <<>>


----------------------------------------------------------------------------
(* get_db_connection: threads that use the pool through the context manager *)

NextDbConnection ==
    \/ \E t \in Threads : GetConnection(t)
    \/ \E t \in Threads : AcquireLock(t)
    \/ \E t \in Threads : CheckLimit(t)
    \/ \E t \in Threads : CreateConnection(t)
    \/ \E t \in Threads : WaitGet(t)
    \/ \E t \in Threads : TimeoutRaise(t)
    \/ \E t \in Threads : AfterTimeout(t)
    \/ PoolTick
    \/ \E t \in Threads, raised \in BlockExits : ExitDbConnection(t, raised)

SpecDbConnection == InitPool /\ [][NextDbConnection]_vars

\* C39: when a with-block of get_db_connection ends, normally or with an
\* exception, its connection goes back to the pool with return_connection; every
\* connection that a caller obtained is either held inside a with-block or idle in
\* the pool, so a failing block takes no connection away from other callers.
C39_ConnectionAlwaysReturned ==
    /\ [][\A t \in Threads :
            (thread[t].pc = "holding" /\ thread'[t].pc # "holding") =>
               /\ thread'[t].pc = "idle"
               /\ pool' = Append(pool, thread[t].conn)
               /\ active_connections' = active_connections]_vars
    /\ [](Len(pool) + Cardinality(CheckedOut) = active_connections - 1)

\* A with-block ended with sqlite3.Error, and a thread that waited for a
\* connection holds one now.
C39_Witness ==
    \E t, u \in Threads :
        /\ thread[t].pc = "idle"
        /\ thread[t].raised = "sqlite3.Error"
        /\ thread[u].pc = "holding"
        /\ thread[u].waited > 0
        /\ active_connections = max_connections


----------------------------------------------------------------------------
(* utils/file/file_handler.py: FileHandler.safe_write_csv and create_backup,   *)
(* next to a reader of the file at file_path                                  *)

MaxDfRows == 2

\* The DataFrames handed to safe_write_csv, and the one an earlier call wrote.
WrittenDfs ==
    BoundedSeq([call_id : CallIds, analysis_status : {"completed"}, api_error : {NULL}],
               MaxDfRows)
OldDf == <<[call_id |-> "c1", analysis_status |-> "failed", api_error |-> "err"]>>

WholeFile(df) == [exists |-> TRUE, lines |-> CsvLines(df)]

\* safe_write_csv(df, file_path, create_backup) up to the backup:
\* "if os.path.exists(file_path) and create_backup".
SafeWriteCsv(df, create_backup) ==
    /\ safe_write.pc = "call"
    /\ safe_write' = [safe_write EXCEPT
                        !.df = df, !.create_backup = create_backup,
                        !.pc = IF safe_write.file_path.exists /\ create_backup
                               THEN "backup" ELSE "temp_open"]
    /\ UNCHANGED <<storeVars, poolVars, clientVars, serviceVars, notSafeWrite>>

\* create_backup(file_path): shutil.copy2 into the backups directory.  An
\* exception is logged and None is returned; safe_write_csv does not look at what
\* create_backup returns.
CreateBackup(fails) ==
    /\ safe_write.pc = "backup"
    /\ safe_write' = [safe_write EXCEPT
                        !.backups = IF fails THEN @ ELSE @ \cup {safe_write.file_path.lines},
                        !.pc = "temp_open"]
    /\ UNCHANGED <<storeVars, poolVars, clientVars, serviceVars, notSafeWrite>>

\* df.to_csv(temp_file, index=False) opens the temporary file, or raises.
TempOpen(fails) ==
    /\ safe_write.pc = "temp_open"
    /\ safe_write' = IF fails
                     THEN [safe_write EXCEPT !.pc = "except"]
                     ELSE [safe_write EXCEPT !.pc = "temp_write", !.written = 0,
                                             !.temp_file = [exists |-> TRUE,
                                                            lines |-> <<>>]]
    /\ UNCHANGED <<storeVars, poolVars, clientVars, serviceVars, notSafeWrite>>

\* The next line reaches the temporary file, or the write raises; after the last
\* line the file is closed.
TempWriteLine(fails) ==
    /\ safe_write.pc = "temp_write"
    /\ LET lines == CsvLines(safe_write.df)
           n == safe_write.written + 1
       IN  safe_write' =
              IF fails
              THEN [safe_write EXCEPT !.pc = "except"]
              ELSE [safe_write EXCEPT
                      !.written = n,
                      !.temp_file = [exists |-> TRUE, lines |-> SubSeq(lines, 1, n)],
                      !.pc = IF n < Len(lines) THEN "temp_write" ELSE "replace"]
    /\ UNCHANGED <<storeVars, poolVars, clientVars, serviceVars, notSafeWrite>>

\* os.replace(temp_file, file_path), or os.rename when file_path is not there:
\* one step of the file system, or an OSError.  Then "return True".
Replace(fails) ==
    /\ safe_write.pc = "replace"
    /\ safe_write' = IF fails
                     THEN [safe_write EXCEPT !.pc = "except"]
                     ELSE [safe_write EXCEPT !.file_path = safe_write.temp_file,
                                             !.temp_file = NoFile,
                                             !.pc = "done", !.ret = "True"]
    /\ UNCHANGED <<storeVars, poolVars, clientVars, serviceVars, notSafeWrite>>

\* except Exception: df.to_csv(emergency_file), whose own failure is logged, and
\* "return False".
EmergencySave(fails) ==
    /\ safe_write.pc = "except"
    /\ safe_write' = [safe_write EXCEPT
                        !.emergency_file = IF fails THEN @ ELSE WholeFile(safe_write.df),
                        !.pc = "done", !.ret = "False"]
    /\ UNCHANGED <<storeVars, poolVars, clientVars, serviceVars, notSafeWrite>>

\* Another process reads the file at file_path.
ReadFilePath ==
    /\ safe_write.pc \notin {"idle"}
    /\ safe_write.file_path.exists
    /\ safe_write.read # safe_write.file_path
    /\ safe_write' = [safe_write EXCEPT !.read = safe_write.file_path]
    /\ UNCHANGED <<storeVars, poolVars, clientVars, serviceVars, notSafeWrite>>

\* The directory as the call finds it: a file that an earlier call wrote, or none.
InitSafeWrite ==
    /\ StoreOff
    /\ PoolOff
    /\ ClientOff
    /\ ServiceOff
    /\ ChunkingOff
    /\ CsvRunOff
    /\ ExportOff
    /\ FanoutOff
    /\ ConfigOff
    /\ AuthOff
    /\ \E exists \in BOOLEAN :
         LET file == IF exists THEN WholeFile(OldDf) ELSE NoFile
         IN  safe_write = [NoSafeWrite EXCEPT !.pc = "call", !.old = file,
                                              !.file_path = file]

NextSafeWrite ==
    \/ \E df \in WrittenDfs, create_backup \in BOOLEAN : SafeWriteCsv(df, create_backup)
    \/ \E fails \in BOOLEAN : CreateBackup(fails)
    \/ \E fails \in BOOLEAN : TempOpen(fails)
    \/ \E fails \in BOOLEAN : TempWriteLine(fails)
    \/ \E fails \in BOOLEAN : Replace(fails)
    \/ \E fails \in BOOLEAN : EmergencySave(fails)
    \/ ReadFilePath

SpecSafeWrite == InitSafeWrite /\ [][NextSafeWrite]_vars

\* C35: whatever a reader of file_path reads is the whole previous content or the
\* whole new content; when a call with create_backup is about to replace a file
\* that existed, and after it has, a backup copy of the previous content exists;
\* and when the call returns False the previous content of file_path is intact.
C35_AtomicReplaceWithBackup ==
    /\ safe_write.read.exists =>
          safe_write.read \in {safe_write.old, WholeFile(safe_write.df)}
    /\ (/\ safe_write.old.exists
        /\ safe_write.create_backup
        /\ (safe_write.pc = "replace" \/ safe_write.ret = "True")) =>
          safe_write.old.lines \in safe_write.backups
    /\ safe_write.ret = "False" => safe_write.file_path = safe_write.old
    /\ safe_write.ret = "True" => safe_write.file_path = WholeFile(safe_write.df)

====
